---- MODULE Spec2Model ----
(***************************************************************************)
(* Model of the anime-ranker ranking engine: the Elo rating store          *)
(* (src/lib/elo.ts), the seeded random source (src/lib/random.ts) and the  *)
(* pair-selection part of the App component (src/App.tsx).                 *)
(*                                                                         *)
(* Numbers.  JavaScript numbers are IEEE doubles; the model uses fixed     *)
(* point integers.  A rating value and an expected score are held in units *)
(* of 1/Scale (Scale = 10^4), weights in the same unit.  An outcome 0, 0.5 *)
(* or 1 is held doubled (0, 1, 2) so that it stays an integer.  The random *)
(* source is held exactly: its state is an integer in 1..Modulus-1 and a   *)
(* draw u = state/Modulus is compared as an exact fraction.                *)
(*                                                                         *)
(* Objects.  Map, Set, Rating and EloState objects live in a heap of       *)
(* addressed cells, so that copying an object and sharing it are different *)
(* things, as they are in JavaScript.                                      *)
(***************************************************************************)
EXTENDS Integers, Sequences, FiniteSets, TLC

VARIABLES
  heap,        \* the object store: Rating, Map, Set and EloState objects
  animeIds,    \* the id list the session was created from
  origin,      \* for each EloState object, the call that produced it
  lastCall,    \* the last library call made and what came of it
  rngState,    \* rngRef.current: the state of the App's random source
  catalog,     \* exportData.anime: the imported entries, in order
  statusFilter,        \* the statuses ticked in the sidebar
  assumeDroppedLower,  \* sidebar toggle "Dropped is worse than Completed"
  avoidRepeats,        \* sidebar toggle "Avoid repeating the same pair"
  comparisonsTarget,   \* sidebar slider
  settingsConfirmed,
  appliedSettings,     \* the settings frozen by Start ranking, if any
  appliedAnimeIds,
  eloState,            \* address of the session's EloState object, or Null
  currentPair,         \* the pair on screen, or NoPair
  autoDecisions,
  pairError,
  effectPending,       \* the pair-selection effect is due to run
  selections           \* calls of selectAllowedPair since the last import

vars == <<heap, animeIds, origin, lastCall, rngState, catalog, statusFilter,
          assumeDroppedLower, avoidRepeats, comparisonsTarget,
          settingsConfirmed, appliedSettings, appliedAnimeIds, eloState,
          currentPair, autoDecisions, pairError, effectPending, selections>>

appVars == <<rngState, catalog, statusFilter, assumeDroppedLower,
             avoidRepeats, comparisonsTarget, settingsConfirmed,
             appliedSettings, appliedAnimeIds, eloState, currentPair,
             autoDecisions, pairError, effectPending, selections>>

----------------------------------------------------------------------------
(* Bounds of the exploration.                                              *)

\* EloState objects the library harness may hold at once (1 + calls made).
MaxStates == 3

\* Calls of selectAllowedPair the App makes after one import.
MaxSelections == 3

----------------------------------------------------------------------------
(* Number representation.                                                  *)

Null == 0

\* null where the value, when there is one, is an array or an object
\* (currentPair, appliedSettings), and where it is a string (pairError).
NoPair == <<>>

NoSettings == <<>>

NoError == ""

Scale == 100 * 100

\* The values a JavaScript number takes when a field is read from an object
\* that does not have it, and after arithmetic on such a value.
Undefined == 0 - (2 ^ 30) - 1
NaN == 0 - (2 ^ 30)

IsNum(x) == x # NaN /\ x # Undefined

Plus(x, y) == IF IsNum(x) /\ IsNum(y) THEN x + y ELSE NaN

Abs(x) == IF x < 0 THEN 0 - x ELSE x

Min(x, y) == IF x <= y THEN x ELSE y

Max(x, y) == IF x >= y THEN x ELSE y

Range(s) == {s[i] : i \in DOMAIN s}

\* a/b < c/d for a, c >= 0 and b, d > 0, by the continued-fraction
\* expansion of both sides, so that no product leaves 32 bits.
RECURSIVE FracLess(_, _, _, _)
FracLess(a, b, c, d) ==
  LET qa == a \div b
      qc == c \div d
      ra == a % b
      rc == c % d
  IN  IF qa # qc THEN qa < qc
      ELSE IF rc = 0 THEN FALSE
      ELSE IF ra = 0 THEN TRUE
      ELSE FracLess(d, rc, b, ra)

----------------------------------------------------------------------------
(* random.ts: the seeded random source.                                    *)

Modulus == 2147483647

Multiplier == 48271

\* The remainder operator of JavaScript: the sign follows the dividend.
JsRem(x, m) == IF x >= 0 THEN x % m ELSE 0 - ((0 - x) % m)

\* createRng(seed): the initial state.
createRng(seed) ==
  LET state == JsRem(seed, Modulus)
  IN  IF state <= 0 THEN state + (Modulus - 1) ELSE state

\* state := (state * 48271) % 2147483647.  The product is computed exactly
\* by the code (it stays below 2^53); here it is split by Schrage's
\* decomposition so that every intermediate value stays below 2^31.
NextRngState(state) ==
  LET q == Modulus \div Multiplier
      r == Modulus % Multiplier
      t == (Multiplier * (state % q)) - (r * (state \div q))
  IN  IF t < 0 THEN t + Modulus ELSE t

\* Math.floor(u * n) for the draw u = state / Modulus and a small n >= 1:
\* the number of k in 1..n-1 with k/n <= u.
FloorDraw(state, n) ==
  Cardinality({k \in 1..(n - 1) : ~FracLess(state, Modulus, k, n)})

RECURSIVE SumTo(_, _)
SumTo(weights, i) == IF i = 0 THEN 0 ELSE SumTo(weights, i - 1) + weights[i]

\* Variant of IndexFor: the uniform index is rounded up, and the weights
\* are not looked at.
IndexFor_CeilDraw(weights, state, n, total) ==
  IF total <= 0 THEN 1 + Min(n - 1, 1 + FloorDraw(state, n)) ELSE n

\* The index weightedChoice returns for the draw u = state / Modulus
\* (state is the random source's state after the call's one nextFloat()).
IndexFor(weights, state, n, total) ==
  IF total <= 0
    THEN 1 + Max(0, Min(n - 1, FloorDraw(state, n)))
  ELSE IF \E i \in 1..n : /\ SumTo(weights, i) >= 0
                          /\ ~FracLess(SumTo(weights, i), total,
                                       state, Modulus)
    THEN CHOOSE i \in 1..n :
           /\ SumTo(weights, i) >= 0
           /\ ~FracLess(SumTo(weights, i), total, state, Modulus)
           /\ \A j \in 1..(i - 1) :
                \/ SumTo(weights, j) < 0
                \/ FracLess(SumTo(weights, j), total, state, Modulus)
  ELSE n

WeightedIndex(weights, state) ==
  IndexFor(weights, state, Len(weights), SumTo(weights, Len(weights)))

\* weightedChoice(items, weights, rng), given the state the rng is in
\* before the call: the chosen item and the state the rng is left in.
\* items[i] for a zero-based i = index - 1: undefined outside the array
ItemAt(items, index) ==
  IF index \in DOMAIN items THEN items[index] ELSE Undefined

Chosen(items, weights, next) ==
  [item |-> ItemAt(items, WeightedIndex(weights, next)), rng |-> next]

weightedChoice(items, weights, state) ==
  Chosen(items, weights, NextRngState(state))

----------------------------------------------------------------------------
(* The object store.                                                       *)
(*                                                                         *)
(*   heap.rating[p]  a Rating object {value, games, wins, losses, ties}    *)
(*   heap.map[p]     a Map<number, Rating>: its entries <<key, address of  *)
(*                   the Rating>> in insertion order                       *)
(*   heap.set[p]     a Set<string> of pair keys                            *)
(*   heap.elo[p]     an EloState object; its ratings and pairHistory       *)
(*                   fields hold the addresses of a Map and of a Set       *)

EmptyHeap == [rating |-> <<>>, map |-> <<>>, set |-> <<>>, elo |-> <<>>]

AllocRating(H, r) ==
  [heap |-> [H EXCEPT !.rating = Append(@, r)], addr |-> Len(H.rating) + 1]

AllocMap(H, entries) ==
  [heap |-> [H EXCEPT !.map = Append(@, entries)], addr |-> Len(H.map) + 1]

AllocSet(H, keys) ==
  [heap |-> [H EXCEPT !.set = Append(@, keys)], addr |-> Len(H.set) + 1]

AllocElo(H, e) ==
  [heap |-> [H EXCEPT !.elo = Append(@, e)], addr |-> Len(H.elo) + 1]

\* Map.prototype.has / get / set on a list of entries.
MapKeys(entries) == {entries[i][1] : i \in DOMAIN entries}

MapHas(entries, key) == \E i \in DOMAIN entries : entries[i][1] = key

MapGet(entries, key) ==
  IF MapHas(entries, key)
    THEN entries[CHOOSE i \in DOMAIN entries : entries[i][1] = key][2]
    ELSE Null

MapSet(entries, key, ref) ==
  IF MapHas(entries, key)
    THEN [i \in DOMAIN entries |->
            IF entries[i][1] = key THEN <<key, ref>> ELSE entries[i]]
    ELSE Append(entries, <<key, ref>>)

\* The Rating an EloState holds for an id, read through the heap
\* (ratingFor; a missing id reads as an object without fields).
NoRating ==
  [value |-> Undefined, games |-> Undefined, wins |-> Undefined,
   losses |-> Undefined, ties |-> Undefined]

RatingAt(H, ref) == IF ref = Null THEN NoRating ELSE H.rating[ref]

ratingFor(H, e, animeId) ==
  RatingAt(H, MapGet(H.map[H.elo[e].ratings], animeId))

\* The value of an EloState with every reference followed: what a caller
\* reading the state observes.
Deep(H, e) ==
  LET elo == H.elo[e]
      entries == H.map[elo.ratings]
  IN  [ratings |-> [i \in DOMAIN entries |->
                      <<entries[i][1], H.rating[entries[i][2]]>>],
       comparisons |-> elo.comparisons,
       skips |-> elo.skips,
       pairHistory |-> H.set[elo.pairHistory],
       kFactor |-> elo.kFactor,
       initialRating |-> elo.initialRating]

----------------------------------------------------------------------------
(* elo.ts: the rating store.                                               *)

\* pairKey(aId, bId): the string `${lo}-${hi}`, held as the pair <<lo, hi>>
\* (the ids of a catalog are positive integers, for which the two
\* determine each other).
pairKey(aId, bId) == IF aId < bId THEN <<aId, bId>> ELSE <<bId, aId>>

InitialRatingDefault == 1500 * Scale

\* new Map() followed by ratings.set(id, {value: initialRating, ...}) for
\* each id of the list in turn.
RECURSIVE FreshRatings(_, _, _, _)
FreshRatings(H, ids, i, initialRating) ==
  IF i = 0 THEN [heap |-> H, entries |-> <<>>]
  ELSE LET prev == FreshRatings(H, ids, i - 1, initialRating)
           r == AllocRating(prev.heap,
                  [value |-> initialRating, games |-> 0, wins |-> 0,
                   losses |-> 0, ties |-> 0])
       IN  [heap |-> r.heap, entries |-> MapSet(prev.entries, ids[i], r.addr)]

createEloState(H, ids, kFactor, initialRating) ==
  LET fr == FreshRatings(H, ids, Len(ids), initialRating)
      m == AllocMap(fr.heap, fr.entries)
      h == AllocSet(m.heap, {})
  IN  AllocElo(h.heap,
        [ratings |-> m.addr, comparisons |-> 0, skips |-> 0,
         pairHistory |-> h.addr, kFactor |-> kFactor,
         initialRating |-> initialRating])

\* e^(y / Scale) in units of 1/Scale for 0 <= y < 0.58 * Scale, by the power
\* series up to the term y^6/6!.
ExpSmall(y) ==
  LET t1 == y
      t2 == (t1 * y) \div (2 * Scale)
      t3 == (t2 * y) \div (3 * Scale)
      t4 == (t3 * y) \div (4 * Scale)
      t5 == (t4 * y) \div (5 * Scale)
      t6 == (t5 * y) \div (6 * Scale)
  IN  Scale + t1 + t2 + t3 + t4 + t5 + t6

\* 10^(j/4) in units of 1/Scale, j = 0..3.
QuarterPowers == <<10000, 17783, 31623, 56234>>

\* 10^(d / 400) in units of 1/Scale, for a rating difference d >= 0 held in
\* units of 1/Scale and below 1600 rating points.
Pow10(d) ==
  LET per100 == 100 * Scale
      q == d \div (4 * per100)
      r == d % (4 * per100)
      j == r \div per100
      f == r % per100                      \* below 100 rating points
      y == ((f \div 100) * 5756) \div Scale  \* f/100 points * ln(10)/4
      p == (QuarterPowers[j + 1] * ExpSmall(y)) \div Scale
  IN  p * (10 ^ q)

\* 1 / (1 + 10^(d/400)) in units of 1/Scale, d >= 0.
Logistic(d) ==
  IF d >= 1600 * Scale THEN 0
  ELSE (Scale * Scale) \div (Scale + Pow10(d))

\* expectedScore(ratingA, ratingB) = 1 / (1 + 10 ** ((ratingB - ratingA) / 400))
expectedScore(ratingA, ratingB) ==
  IF ~(IsNum(ratingA) /\ IsNum(ratingB)) THEN NaN
  ELSE IF ratingB >= ratingA THEN Logistic(ratingB - ratingA)
  ELSE Scale - Logistic(ratingA - ratingB)

Minus(x, y) == IF IsNum(x) /\ IsNum(y) THEN x - y ELSE NaN

Times(x, y) == IF IsNum(x) /\ IsNum(y) THEN x * y ELSE NaN

\* Variant of ValidOutcome: the outcome is not checked at all.
ValidOutcome_Unchecked(outcome2) == TRUE

\* [0, 0.5, 1].includes(outcomeForA), on the doubled outcome.
ValidOutcome(outcome2) == outcome2 \in {0, 1, 2}

\* Variant of CopyMap: new Map(), the entries of the input not copied.
CopyMap_Empty(H, mapRef) == AllocMap(H, <<>>)

\* new Map(elo.ratings): a new Map object holding the same Rating objects.
CopyMap(H, mapRef) == AllocMap(H, H.map[mapRef])

\* Variant of SpreadRating: ratings.get(id) without the spread, the Rating
\* object of the input state used as it is.
SpreadRating_Shared(H, ref) == [heap |-> H, addr |-> ref]

\* { ...(ratings.get(id) as Rating) }: a new object with the fields of the
\* Rating at ref (none, when the id is not in the map).
SpreadRating(H, ref) == AllocRating(H, RatingAt(H, ref))

\* Variant of CopySet: new Set(), the keys of the input not copied.
CopySet_Empty(H, setRef) == AllocSet(H, {})

\* new Set(elo.pairHistory)
CopySet(H, setRef) == AllocSet(H, H.set[setRef])

\* object.field += d, on the Rating object at ref.
AddTo(H, ref, field, d) == [H EXCEPT !.rating[ref][field] = Plus(@, d)]

\* Variant of UpdateValues: expectedA is used for both items.
UpdateValues_OneExpectation(H, pa, pb, k, outcome2) ==
  LET outcomeForA == outcome2 * (Scale \div 2)
      expectedA == expectedScore(H.rating[pa].value, H.rating[pb].value)
      H1 == AddTo(H, pa, "value", Times(k, Minus(outcomeForA, expectedA)))
  IN  AddTo(H1, pb, "value",
            Times(k, Minus(Minus(Scale, outcomeForA), expectedA)))

\* ra.value += k * (outcomeForA - expectedA);
\* rb.value += k * (1 - outcomeForA - expectedB);
UpdateValues(H, pa, pb, k, outcome2) ==
  LET outcomeForA == outcome2 * (Scale \div 2)
      expectedA == expectedScore(H.rating[pa].value, H.rating[pb].value)
      expectedB == Minus(Scale, expectedA)
      H1 == AddTo(H, pa, "value", Times(k, Minus(outcomeForA, expectedA)))
  IN  AddTo(H1, pb, "value",
            Times(k, Minus(Minus(Scale, outcomeForA), expectedB)))

\* Variant of UpdateGames: only ra.games += 1.
UpdateGames_OnlyA(H, pa, pb) == AddTo(H, pa, "games", 1)

\* ra.games += 1; rb.games += 1;
UpdateGames(H, pa, pb) == AddTo(AddTo(H, pa, "games", 1), pb, "games", 1)

\* Variant of UpdateCounts: a tie is counted for a only.
UpdateCounts_TieOnlyA(H, pa, pb, outcome2) ==
  IF outcome2 = 2
    THEN AddTo(AddTo(H, pa, "wins", 1), pb, "losses", 1)
  ELSE IF outcome2 = 0
    THEN AddTo(AddTo(H, pa, "losses", 1), pb, "wins", 1)
  ELSE AddTo(H, pa, "ties", 1)

\* the wins / losses / ties branch
UpdateCounts(H, pa, pb, outcome2) ==
  IF outcome2 = 2
    THEN AddTo(AddTo(H, pa, "wins", 1), pb, "losses", 1)
  ELSE IF outcome2 = 0
    THEN AddTo(AddTo(H, pa, "losses", 1), pb, "wins", 1)
  ELSE AddTo(AddTo(H, pa, "ties", 1), pb, "ties", 1)

\* ratings.set(aId, ra); ratings.set(bId, rb); on the Map object at mapRef
StoreRatings(H, mapRef, aId, pa, bId, pb) ==
  [H EXCEPT !.map[mapRef] = MapSet(MapSet(@, aId, pa), bId, pb)]

\* Variant of NextElo: the call is counted in skips as well.
NextElo_CountingSkips(elo, mapRef, setRef) ==
  [elo EXCEPT !.ratings = mapRef, !.pairHistory = setRef,
              !.comparisons = elo.comparisons + 1,
              !.skips = elo.skips + 1]

\* { ...elo, ratings, pairHistory, comparisons: elo.comparisons + 1 }
NextElo(elo, mapRef, setRef) ==
  [elo EXCEPT !.ratings = mapRef, !.pairHistory = setRef,
              !.comparisons = elo.comparisons + 1]

\* recordOutcome(elo, aId, bId, outcomeForA) on the EloState at address e:
\* the heap after the call, the address of the returned state, and the
\* message of the error thrown ("" when the call returns).
recordOutcome(H, e, aId, bId, outcome2) ==
  IF aId = bId
    THEN [threw |-> "aId and bId must be different",
          heap |-> H, result |-> Null]
  ELSE IF ~ValidOutcome(outcome2)
    THEN [threw |-> "outcomeForA must be 0, 0.5, or 1",
          heap |-> H, result |-> Null]
  ELSE
    LET elo == H.elo[e]
        m == CopyMap(H, elo.ratings)
        ra == SpreadRating(m.heap, MapGet(m.heap.map[m.addr], aId))
        rb == SpreadRating(ra.heap, MapGet(ra.heap.map[m.addr], bId))
        H1 == UpdateValues(rb.heap, ra.addr, rb.addr, elo.kFactor, outcome2)
        H2 == UpdateGames(H1, ra.addr, rb.addr)
        H3 == UpdateCounts(H2, ra.addr, rb.addr, outcome2)
        H4 == StoreRatings(H3, m.addr, aId, ra.addr, bId, rb.addr)
        h == CopySet(H4, elo.pairHistory)
        H5 == [h.heap EXCEPT !.set[h.addr] = @ \cup {pairKey(aId, bId)}]
        r == AllocElo(H5, NextElo(H5.elo[e], m.addr, h.addr))
    IN  [threw |-> "", heap |-> r.heap, result |-> r.addr]

----------------------------------------------------------------------------
(* elo.ts: selectPair.                                                     *)

\* SelectPairOptions with the defaults of the destructuring filled in.
\* A map that was not passed has its "has" flag FALSE; a map is a function
\* from ids to values, and a missing key reads as undefined.
DefaultMaxAttempts == 200

PoolSize == 60

NoOptions ==
  [avoidRepeats |-> TRUE, maxAttempts |-> DefaultMaxAttempts,
   hasPriority |-> FALSE, priorityById |-> <<>>, priorityBoost |-> 0,
   hasScore |-> FALSE, scoreById |-> <<>>, sameScoreBoost |-> 0]

\* priorityById?.get(id) ?? 0
PriorityOf(opts, id) ==
  IF opts.hasPriority /\ id \in DOMAIN opts.priorityById
    THEN opts.priorityById[id] ELSE 0

\* scoreById.get(id): Null stands for null and for undefined
ScoreOf(opts, id) ==
  IF opts.hasScore /\ id \in DOMAIN opts.scoreById
    THEN opts.scoreById[id] ELSE Null

\* What one call of selectPair reads from its arguments, read once: the
\* Rating of each id (ratingFor), the pair history, the options.
CallContext(H, e, ids, opts) ==
  [ids |-> ids, opts |-> opts,
   rating |-> [id \in Range(ids) |-> ratingFor(H, e, id)],
   history |-> H.set[H.elo[e].pairHistory]]

\* weight(animeId), in units of 1/Scale
weight(ctx, animeId) ==
  LET base == Scale \div (1 + ctx.rating[animeId].games)
  IN  IF ~ctx.opts.hasPriority \/ ctx.opts.priorityBoost <= 0 THEN base
      ELSE (base * (Scale + ((ctx.opts.priorityBoost
                                * PriorityOf(ctx.opts, animeId))
                               \div Scale))) \div Scale

\* const allWeights = animeIds.map((id) => weight(id));
AllWeights(ctx) == [i \in 1..Len(ctx.ids) |-> weight(ctx, ctx.ids[i])]

\* Variant of SortByKey: equal keys come out in reverse input order.
SortByKey_Unstable(seq, key) ==
  LET n == Len(seq)
      rank == [i \in 1..n |->
                 1 + Cardinality({j \in 1..n :
                        key[j] < key[i] \/ (key[j] = key[i] /\ j > i)})]
  IN  [p \in 1..n |-> seq[CHOOSE i \in 1..n : rank[i] = p]]

\* Array.prototype.sort with a comparator on a numeric key: stable,
\* ascending.  key is a function on the indices of seq.
SortByKey(seq, key) ==
  LET n == Len(seq)
      rank == [i \in 1..n |->
                 1 + Cardinality({j \in 1..n :
                        key[j] < key[i] \/ (key[j] = key[i] /\ j < i)})]
  IN  [p \in 1..n |-> seq[CHOOSE i \in 1..n : rank[i] = p]]

\* ids.filter(id => id !== aId).sort(by |rating - aRating|)
\*    .slice(0, Math.min(60, ids.length - 1))
Candidates(ctx, aId) ==
  LET aRating == ctx.rating[aId].value
      others == SelectSeq(ctx.ids, LAMBDA id : id # aId)
      key == [i \in 1..Len(others) |->
                Abs(ctx.rating[others[i]].value - aRating)]
      sorted == SortByKey(others, key)
  IN  SubSeq(sorted, 1, Min(Len(sorted), Min(PoolSize, Len(ctx.ids) - 1)))

\* the weight of candidate id against the anchor aId, in units of 1/Scale
candWeight(ctx, aId, id) ==
  LET aRating == ctx.rating[aId].value
      diff == Abs(ctx.rating[id].value - aRating)
      centi == diff \div (Scale \div 100)      \* diff / 100, times Scale
      w == (weight(ctx, id) * Scale) \div (Scale + centi)
      scoreA == ScoreOf(ctx.opts, aId)
  IN  IF ctx.opts.hasScore /\ scoreA # Null /\ scoreA = ScoreOf(ctx.opts, id)
        THEN (w * (Scale + ((ctx.opts.sameScoreBoost
                               * PriorityOf(ctx.opts, aId))
                              \div Scale))) \div Scale
        ELSE w

\* The two draws of one pass of the loop: the pair drawn and the state the
\* random source is left in.
PairDrawn(a, b) == [pair |-> <<a.item, b.item>>, rng |-> b.rng]

\* const bId = weightedChoice(candidates, candWeights, rng), a being the
\* first draw and cands the candidates for it
DrawSecond(ctx, a, cands) ==
  PairDrawn(a, weightedChoice(cands,
                 [i \in 1..Len(cands) |-> candWeight(ctx, a.item, cands[i])],
                 a.rng))

DrawCandidate(ctx, a) == DrawSecond(ctx, a, Candidates(ctx, a.item))

DrawPair(ctx, allWeights, rng) ==
  DrawCandidate(ctx, weightedChoice(ctx.ids, allWeights, rng))

\* if (avoidRepeats && elo.pairHistory.has(key)) continue;
Rejected(ctx, pair) ==
  ctx.opts.avoidRepeats /\ pairKey(pair[1], pair[2]) \in ctx.history

\* Variant of FallbackPair: the second index is not moved past the first.
FallbackPair_NoShift(ids, rng) ==
  LET n == Len(ids)
      r1 == NextRngState(rng)
      r2 == NextRngState(r1)
  IN  [pair |-> <<ids[FloorDraw(r1, n) + 1], ids[FloorDraw(r2, n - 1) + 1]>>,
       rng |-> r2]

\* The code after the loop: two uniform draws of distinct indices.
FallbackPair(ids, rng) ==
  LET n == Len(ids)
      r1 == NextRngState(rng)
      r2 == NextRngState(r1)
      firstIndex == FloorDraw(r1, n)
      second == FloorDraw(r2, n - 1)
      secondIndex == IF second >= firstIndex THEN second + 1 ELSE second
  IN  [pair |-> <<ids[firstIndex + 1], ids[secondIndex + 1]>>, rng |-> r2]

\* One pass of the loop: the pair when it is returned, the random source
\* after the pass.
PassResult(ctx, d) ==
  [found |-> ~Rejected(ctx, d.pair), pair |-> d.pair, rng |-> d.rng,
   passes |-> 1]

OnePass(ctx, allWeights, rng) == PassResult(ctx, DrawPair(ctx, allWeights, rng))

\* The passes made so far added to those that follow.
AfterPasses(made, rest) == [rest EXCEPT !.passes = @ + made]

\* n consecutive passes of the loop starting with the random source in
\* state rng, stopping at the first pass that returns; passes counts the
\* passes made.  The passes are run as two halves one after the other,
\* which is the same sequence of passes.
RECURSIVE RunPasses(_, _, _, _)
RECURSIVE MorePasses(_, _, _, _)
MorePasses(ctx, allWeights, first, n) ==
  IF first.found THEN first
  ELSE AfterPasses(first.passes, RunPasses(ctx, allWeights, first.rng, n))

RunPasses(ctx, allWeights, rng, n) ==
  IF n <= 0 THEN [found |-> FALSE, pair |-> <<0, 0>>, rng |-> rng,
                  passes |-> 0]
  ELSE IF n = 1 THEN OnePass(ctx, allWeights, rng)
  ELSE MorePasses(ctx, allWeights,
                  RunPasses(ctx, allWeights, rng, n \div 2),
                  n - (n \div 2))

Returned(r, path, passes) ==
  [threw |-> "", pair |-> r.pair, rng |-> r.rng, path |-> path,
   passes |-> passes]

\* Variant of AfterLoop: nothing follows the loop.
AfterLoop_NoFallback(ctx, r) ==
  Returned(r, IF r.found THEN "weighted" ELSE "fallback", r.passes)

\* the return inside the loop, or the code after it
AfterLoop(ctx, r) ==
  IF r.found THEN Returned(r, "weighted", r.passes)
  ELSE Returned(FallbackPair(ctx.ids, r.rng), "fallback", r.passes)

SelectIn(ctx, rng) ==
  AfterLoop(ctx, RunPasses(ctx, AllWeights(ctx), rng, ctx.opts.maxAttempts))

\* selectPair(elo, animeIds, options): the pair returned, the state the
\* random source is left in, the path taken, and the error thrown if any.
selectPair(H, e, ids, opts, rng) ==
  IF Len(ids) < 2
    THEN [threw |-> "Need at least 2 anime to compare", pair |-> <<0, 0>>,
          rng |-> rng, path |-> "throw", passes |-> 0]
    ELSE SelectIn(CallContext(H, e, ids, opts), rng)

----------------------------------------------------------------------------
(* The library driven directly: a caller that holds every EloState it was  *)
(* ever given and calls recordOutcome on any of them.                      *)

IdLists == {<<1, 2, 3>>}

KFactors == {32}

\* The argument triples <<aId, bId, doubled outcome>> a caller passes:
\* every ordered pair of distinct ids with each of the outcomes 0, 0.5, 1,
ValidCalls(ids) ==
  {<<a, b, o>> : a \in Range(ids), b \in Range(ids), o \in {0, 1, 2}}
    \ {<<a, a, o>> : a \in Range(ids), o \in {0, 1, 2}}

\* an item against itself, and the outcomes 1.5 and 2,
InvalidCalls(ids) ==
  {<<ids[1], ids[1], 2>>, <<ids[2], ids[2], 3>>,
   <<ids[1], ids[2], 3>>, <<ids[2], ids[1], 4>>}

\* and an id the session was not created with.
ForeignIds == {9}

ForeignCalls(ids) ==
  UNION {{<<ids[1], f, 2>>, <<f, ids[2], 1>>, <<f, ids[1], 0>>} :
           f \in ForeignIds}

IdleCall ==
  [op |-> "none", input |-> Null, a |-> 0, b |-> 0, outcome |-> 0,
   threw |-> "", result |-> Null, pair |-> <<0, 0>>, path |-> "",
   ids |-> <<>>, opts |-> NoOptions, seed |-> 0, attempts |-> 0,
   deps |-> <<>>, passes |-> 0, most |-> 0, fallbacks |-> 0, from |-> 0,
   rng |-> 0]

AppIdle ==
  /\ rngState = 1
  /\ catalog = <<>>
  /\ statusFilter = {}
  /\ assumeDroppedLower = TRUE
  /\ avoidRepeats = TRUE
  /\ comparisonsTarget = 0
  /\ settingsConfirmed = FALSE
  /\ appliedSettings = NoSettings
  /\ appliedAnimeIds = <<>>
  /\ eloState = Null
  /\ currentPair = NoPair
  /\ autoDecisions = 0
  /\ pairError = NoError
  /\ effectPending = FALSE
  /\ selections = 0

Init ==
  /\ \E ids \in IdLists, k \in KFactors :
       /\ heap = createEloState(EmptyHeap, ids, k, InitialRatingDefault).heap
       /\ animeIds = ids
  /\ origin = <<[op |-> "createEloState", input |-> Null, a |-> 0, b |-> 0,
                 outcome |-> 0]>>
  /\ lastCall = IdleCall
  /\ AppIdle

\* const next = recordOutcome(states[e], aId, bId, outcome), the caller
\* keeping next beside the states it already holds.
RecordOutcomeCall(inputs, calls) ==
  \E e \in inputs, c \in calls :
    \E r \in {recordOutcome(heap, e, c[1], c[2], c[3])} :
        /\ heap' = r.heap
        /\ origin' = IF r.threw = ""
                       THEN Append(origin,
                              [op |-> "recordOutcome", input |-> e,
                               a |-> c[1], b |-> c[2], outcome |-> c[3]])
                       ELSE origin
        /\ lastCall' = [IdleCall EXCEPT
                          !.op = "recordOutcome", !.input = e, !.a = c[1],
                          !.b = c[2], !.outcome = c[3],
                          !.threw = r.threw, !.result = r.result]
        /\ UNCHANGED <<animeIds, appVars>>

\* a call on any state the caller holds (the latest, or an earlier one:
\* undo and replay)
CallWithSessionIds ==
  /\ Len(heap.elo) < MaxStates
  /\ RecordOutcomeCall(1..Len(heap.elo), ValidCalls(animeIds))

CallWithInvalidArguments ==
  RecordOutcomeCall({Len(heap.elo)}, InvalidCalls(animeIds))

CallWithForeignId ==
  /\ Len(heap.elo) < MaxStates
  /\ RecordOutcomeCall(1..Len(heap.elo), ForeignCalls(animeIds))

Next == CallWithSessionIds \/ CallWithInvalidArguments

Spec == Init /\ [][Next]_vars

\* The same caller, also passing an id that is not in the session.
NextForeign == CallWithSessionIds \/ CallWithForeignId

SpecForeign == Init /\ [][NextForeign]_vars

----------------------------------------------------------------------------
(* The pair sampler driven directly: a caller that records outcomes on its *)
(* latest state and asks selectPair for a pair, with a random source made  *)
(* by createRng(seed) for the call.                                        *)

SelectIdLists == {<<1, 2>>, <<1, 2, 3>>}

Seeds == {0, 9, 42}

\* A priority map and a score map over the ids 1..3, as the App builds
\* them: items 1 and 2 share the score 7.
SamplePriority == <<Scale, Scale \div 2, 0>>

SampleScores == <<7, 7, 8>>

OptionSets ==
  {[NoOptions EXCEPT !.avoidRepeats = av, !.maxAttempts = ma] :
     av \in BOOLEAN, ma \in {1, DefaultMaxAttempts}}
  \cup
  {[NoOptions EXCEPT !.avoidRepeats = av, !.maxAttempts = ma,
                     !.hasPriority = TRUE, !.priorityById = SamplePriority,
                     !.priorityBoost = (3 * Scale) \div 2,
                     !.hasScore = TRUE, !.scoreById = SampleScores,
                     !.sameScoreBoost = (9 * Scale) \div 8] :
     av \in BOOLEAN, ma \in {1, DefaultMaxAttempts}}

InitSelect ==
  /\ \E ids \in SelectIdLists, k \in KFactors :
       /\ heap = createEloState(EmptyHeap, ids, k, InitialRatingDefault).heap
       /\ animeIds = ids
  /\ origin = <<[op |-> "createEloState", input |-> Null, a |-> 0, b |-> 0,
                 outcome |-> 0]>>
  /\ lastCall = IdleCall
  /\ AppIdle

\* state = recordOutcome(state, aId, bId, outcome) with aId < bId
RecordOnLatest ==
  /\ Len(heap.elo) < MaxStates
  /\ RecordOutcomeCall({Len(heap.elo)},
       {c \in ValidCalls(animeIds) : c[1] < c[2]})

\* selectPair(state, ids, { rng: createRng(seed), ...options }), once per
\* state the caller has reached
SelectPairCall ==
  /\ lastCall.op # "selectPair"
  /\ \E seed \in Seeds, opts \in OptionSets :
       \E e \in {Len(heap.elo)} :
       \E r \in {selectPair(heap, e, animeIds, opts, createRng(seed))} :
           lastCall' = [IdleCall EXCEPT
                          !.op = "selectPair", !.input = e,
                          !.ids = animeIds, !.opts = opts, !.seed = seed,
                          !.threw = r.threw, !.pair = r.pair,
                          !.path = r.path, !.passes = r.passes,
                          !.most = r.passes,
                          !.fallbacks = IF r.path = "fallback" THEN 1 ELSE 0,
                          !.attempts = 1, !.from = createRng(seed),
                          !.rng = r.rng]
  /\ UNCHANGED <<heap, animeIds, origin, appVars>>

\* selectPair(state, [id], { rng }) with a single id
SelectPairTooFew ==
  /\ lastCall.op # "selectPair"
  /\ \E e \in {Len(heap.elo)}, ids \in {SubSeq(animeIds, 1, 1)} :
     \E r \in {selectPair(heap, e, ids, NoOptions, createRng(42))} :
         lastCall' = [IdleCall EXCEPT
                        !.op = "selectPair", !.input = e, !.ids = ids,
                        !.opts = NoOptions, !.seed = 42,
                        !.threw = r.threw, !.path = r.path]
  /\ UNCHANGED <<heap, animeIds, origin, appVars>>

NextSelect == RecordOnLatest \/ SelectPairCall \/ SelectPairTooFew

SpecSelect == InitSelect /\ [][NextSelect]_vars

----------------------------------------------------------------------------
(* Properties of the rating store (specifications Spec and SpecForeign).   *)

States == 1..Len(heap.elo)

\* The states produced by a call of recordOutcome.
Recorded == {e \in States : origin[e].op = "recordOutcome"}

\* How many outcomes were recorded on the way from the fresh state to e.
RECURSIVE Depth(_)
Depth(e) ==
  IF origin[e].op = "recordOutcome" THEN 1 + Depth(origin[e].input) ELSE 0

\* Every call on the way from the fresh state to e was given session ids.
RECURSIVE SessionIdsOnly(_)
SessionIdsOnly(e) ==
  IF origin[e].op = "recordOutcome"
    THEN /\ origin[e].a \in Range(animeIds)
         /\ origin[e].b \in Range(animeIds)
         /\ SessionIdsOnly(origin[e].input)
    ELSE TRUE

\* The Rating state e holds for id, and the ids it holds a Rating for.
RatingIn(e, id) == ratingFor(heap, e, id)

KeysOf(e) == MapKeys(heap.map[heap.elo[e].ratings])

RECURSIVE SumGames(_, _)
SumGames(e, ids) ==
  IF ids = {} THEN 0
  ELSE LET id == CHOOSE x \in ids : TRUE
       IN  RatingIn(e, id).games + SumGames(e, ids \ {id})

\* C1, first part: no step changes what any state the caller holds reads
\* as (ratings, comparisons, skips, pairHistory), whether the call made in
\* the step returns or throws.
C1_InputUnchanged ==
  \A e \in States : Deep(heap, e)' = Deep(heap, e)

\* C1, second part: a returned state is made of objects of its own (its
\* Map, its Set and the Ratings of the two items compared are not objects
\* of the input state), and two calls with the same input state and the
\* same arguments return states that read the same.
C1_SeparateResult ==
  \A e \in Recorded :
    LET o == origin[e]
        in == heap.elo[o.input]
        out == heap.elo[e]
    IN  /\ out.ratings # in.ratings
        /\ out.pairHistory # in.pairHistory
        /\ \A id \in {o.a, o.b} :
             MapGet(heap.map[out.ratings], id)
               # MapGet(heap.map[in.ratings], id)

C1_SameCallSameResult ==
  \A e1 \in Recorded, e2 \in Recorded :
    origin[e1] = origin[e2] => Deep(heap, e1) = Deep(heap, e2)

\* C1: recordOutcome never modifies its input state, along any sequence of
\* calls, returning or throwing; its result is a separate state value; the
\* same call made twice on the same input state yields equal results.
C1_RecordOutcomeIsPure ==
  /\ [][C1_InputUnchanged]_vars
  /\ [](C1_SeparateResult /\ C1_SameCallSameResult)

\* An input state that still reads as fresh after two equal calls on it
\* returned two states that differ from it.
C1_Witness ==
  \E e1 \in Recorded, e2 \in Recorded :
    /\ e1 # e2
    /\ origin[e1] = origin[e2]
    /\ Deep(heap, origin[e1].input).comparisons = 0
    /\ RatingIn(origin[e1].input, origin[e1].a).games = 0
    /\ RatingIn(e1, origin[e1].a).games = 1

\* C2: after n recorded outcomes from the fresh state (distinct session
\* ids, outcome 0, 0.5 or 1), comparisons = n and the games of all items
\* sum to 2n; a rejected call adds to neither.
C2_ComparisonsAndGames ==
  \A e \in States :
    /\ heap.elo[e].comparisons = Depth(e)
    /\ SumGames(e, KeysOf(e)) = 2 * Depth(e)

C2_Witness ==
  \E e \in States :
    /\ Depth(e) = 2
    /\ heap.elo[e].comparisons = 2
    /\ SumGames(e, KeysOf(e)) = 4

\* C3: every Rating of every state has games = wins + losses + ties, and
\* a recorded outcome adds one game to both items, one win and one loss
\* to the winner and the loser, or one tie to both.
C3_Step(e) ==
  LET o == origin[e]
      a0 == RatingIn(o.input, o.a)
      b0 == RatingIn(o.input, o.b)
      a1 == RatingIn(e, o.a)
      b1 == RatingIn(e, o.b)
      win(x) == IF x THEN 1 ELSE 0
  IN  /\ a1.games = a0.games + 1
      /\ b1.games = b0.games + 1
      /\ a1.wins = a0.wins + win(o.outcome = 2)
      /\ b1.losses = b0.losses + win(o.outcome = 2)
      /\ a1.losses = a0.losses + win(o.outcome = 0)
      /\ b1.wins = b0.wins + win(o.outcome = 0)
      /\ a1.ties = a0.ties + win(o.outcome = 1)
      /\ b1.ties = b0.ties + win(o.outcome = 1)

C3_GamesAreWinsLossesTies ==
  /\ \A e \in States : \A id \in KeysOf(e) :
       LET r == RatingIn(e, id)
       IN  r.games = r.wins + r.losses + r.ties
  /\ \A e \in Recorded : C3_Step(e)

\* An item with a win and a tie, two games.
C3_Witness ==
  \E e \in States : \E id \in KeysOf(e) :
    LET r == RatingIn(e, id)
    IN  r.wins = 1 /\ r.ties = 1 /\ r.games = 2

\* C4 as stated: in every state reached by calls that return, the keys of
\* ratings are exactly the ids of the session, whatever pair of distinct
\* ids the calls were given.
C4_KeysAreSessionIds_AnyPair ==
  \A e \in States : KeysOf(e) = Range(animeIds)

\* C4 as amended: the keys of ratings are exactly the ids of the session in
\* every state reached by calls that were given distinct ids of the
\* session.
C4_KeysAreSessionIds ==
  \A e \in States : SessionIdsOnly(e) => KeysOf(e) = Range(animeIds)

C4_Witness ==
  \E e \in States :
    /\ Depth(e) = 2
    /\ SessionIdsOnly(e)
    /\ KeysOf(e) = Range(animeIds)

\* C5: a call with aId = bId, or with an outcome other than 0, 0.5, 1, is
\* answered by the error for that condition; it returns no state and
\* leaves every object as it was, so that no comparison, game or pair is
\* recorded for it.
C5_Step ==
  LET c == lastCall'
  IN  c.op = "recordOutcome" /\ (c.a = c.b \/ c.outcome \notin {0, 1, 2})
        => /\ c.threw = IF c.a = c.b
                          THEN "aId and bId must be different"
                          ELSE "outcomeForA must be 0, 0.5, or 1"
           /\ c.result = Null
           /\ heap' = heap
           /\ origin' = origin

C5_InvalidCallsAreRejected == [][C5_Step]_vars

\* A rejected call made on a state that has an outcome recorded.
C5_Witness ==
  /\ lastCall.op = "recordOutcome"
  /\ lastCall.threw # ""
  /\ Depth(lastCall.input) >= 1

----------------------------------------------------------------------------
(* Properties of selectPair (specification SpecSelect).                    *)

\* The call just made was selectPair and it returned a pair.
Selected == lastCall.op = "selectPair" /\ lastCall.threw = ""

\* The pair keys the state given to the last call has in pairHistory.
HistoryOf(e) == heap.set[heap.elo[e].pairHistory]

AllPairKeys(ids) ==
  {pairKey(a, b) : a \in Range(ids), b \in Range(ids)} \ 
    {pairKey(a, a) : a \in Range(ids)}

\* C6: with avoidRepeats = true and some pair of the list not yet in
\* pairHistory, the pair selectPair returns is not in pairHistory.
C6_NoRepeatWhileUnseenPairLeft ==
  Selected /\ lastCall.opts.avoidRepeats
           /\ AllPairKeys(lastCall.ids) \ HistoryOf(lastCall.input) # {}
    => pairKey(lastCall.pair[1], lastCall.pair[2])
         \notin HistoryOf(lastCall.input)

\* C7: the pair selectPair returns from a list of at least two distinct
\* ids consists of two different ids of the list, on the weighted path
\* and on the fallback path.
C7_PairIsTwoDistinctListIds ==
  Selected =>
    /\ lastCall.pair[1] # lastCall.pair[2]
    /\ lastCall.pair[1] \in Range(lastCall.ids)
    /\ lastCall.pair[2] \in Range(lastCall.ids)
    /\ lastCall.path \in {"weighted", "fallback"}

\* A pair returned by the code after the loop, from a list of three ids.
C7_Witness ==
  /\ Selected
  /\ lastCall.path = "fallback"
  /\ Len(lastCall.ids) = 3
  /\ lastCall.pair[1] # lastCall.pair[2]

----------------------------------------------------------------------------
(* App.tsx: what the component derives from the imported list and the      *)
(* sidebar.  An entry of the list is a record [animeId, status, myScore],  *)
(* myScore being Null for an entry without a score.                        *)

\* animeById.get(id)
EntryOf(cat, id) ==
  cat[CHOOSE i \in 1..Len(cat) : cat[i].animeId = id]

\* statusById.get(id)
statusById(cat, id) == EntryOf(cat, id).status

allStatuses(cat) == {cat[i].status : i \in 1..Len(cat)}

EntriesWith(cat, filter) == SelectSeq(cat, LAMBDA entry : entry.status \in filter)

IdsOf(entries) == [i \in 1..Len(entries) |-> entries[i].animeId]

selectedEntries == EntriesWith(catalog, statusFilter)

selectedIds == IdsOf(selectedEntries)

\* entries.filter((entry) => entry.status === status).length
CountStatus(entries, status) ==
  Len(SelectSeq(entries, LAMBDA entry : entry.status = status))

\* The share of the pairs that stay allowed, as <<allowedPairs, totalPairs>>.
pairScale(entries, assumeLower) ==
  LET n == Len(entries)
      totalPairs == (n * (n - 1)) \div 2
      completedCount == CountStatus(entries, "Completed")
      droppedCount == CountStatus(entries, "Dropped")
  IN  IF totalPairs <= 0 THEN <<1, 1>>
      ELSE IF ~assumeLower \/ completedCount = 0 \/ droppedCount = 0
        THEN <<1, 1>>
      ELSE <<totalPairs - (completedCount * droppedCount), totalPairs>>

\* The scores malScoreSummary and priorityData collect: entry.myScore when
\* it is a positive number.
ScoresOf(entries) ==
  LET scored == SelectSeq(entries,
                  LAMBDA entry : entry.myScore # Null /\ entry.myScore > 0)
  IN  [i \in 1..Len(scored) |-> scored[i].myScore]

\* fitNormal(scores).sigma <= 0: no score, one score, or scores that are
\* all the same value (their mean is that value and every deviation is 0).
SigmaIsZero(scores) == \A i, j \in 1..Len(scores) : scores[i] = scores[j]

ShortListLength == 10

\* malScoreSummary(entries).normality, in units of 1/Scale, for a list
\* with fewer than ten scores or with scores of one value.
malNormality(entries) ==
  IF Len(ScoresOf(entries)) < ShortListLength THEN Scale \div 2 ELSE 0

\* Math.max(0.35, Math.min(1.2, 1.2 - 0.9 * normality)), in units of 1/Scale
normalityMultiplier(normality) ==
  Max((35 * Scale) \div 100,
      Min((12 * Scale) \div 10,
          ((12 * Scale) \div 10) - ((9 * normality) \div 10)))

\* pairScale * normalityMultiplier, in units of 1/Scale
comparisonScale(entries, assumeLower, normality) ==
  (normalityMultiplier(normality) * pairScale(entries, assumeLower)[1])
    \div pairScale(entries, assumeLower)[2]

\* Variant of TotalFor without Math.max(1, ...).
TotalFor_Unfloored(avgGames, n, scale) ==
  ((avgGames * n * scale) + Scale) \div (2 * Scale)

\* Math.max(1, Math.round(((avgGames * n) / 2) * comparisonScale))
TotalFor(avgGames, n, scale) ==
  Max(1, ((avgGames * n * scale) + Scale) \div (2 * Scale))

comparisonTargets(n, scale) ==
  IF n <= 0 \/ scale <= 0
    THEN [meaningfulMin |-> 0, optimal |-> 0, excessive |-> 0]
    ELSE [meaningfulMin |-> TotalFor(2, n, scale),
          optimal |-> TotalFor(4, n, scale),
          excessive |-> TotalFor(7, n, scale)]

guidance ==
  comparisonTargets(Len(selectedIds),
    comparisonScale(selectedEntries, assumeDroppedLower,
                    malNormality(selectedEntries)))

sliderMax == guidance.excessive

\* appliedSettings?.field ?? field
appliedAssumeDroppedLower ==
  IF appliedSettings # NoSettings
    THEN appliedSettings[1].assumeDroppedLower ELSE assumeDroppedLower

appliedAvoidRepeats ==
  IF appliedSettings # NoSettings
    THEN appliedSettings[1].avoidRepeats ELSE avoidRepeats

comparisonGoal ==
  IF appliedSettings # NoSettings
    THEN appliedSettings[1].comparisonsTarget ELSE comparisonsTarget

\* Variant of done: the goal has to be exceeded.
done_AfterGoal ==
  eloState # Null /\ heap.elo[eloState].comparisons > comparisonGoal

done == eloState # Null /\ heap.elo[eloState].comparisons >= comparisonGoal

activeAnimeIds ==
  IF Len(appliedAnimeIds) > 0 THEN appliedAnimeIds ELSE selectedIds

activeEntries ==
  [i \in 1..Len(activeAnimeIds) |-> EntryOf(catalog, activeAnimeIds[i])]

\* The share of the scores that are the value score, in units of 1/Scale.
Observed(scores, score) ==
  (Len(SelectSeq(scores, LAMBDA s : s = score)) * Scale) \div Len(scores)

RECURSIVE MaxOver(_, _)
MaxOver(f, S) ==
  IF S = {} THEN 0
  ELSE LET x == CHOOSE y \in S : TRUE
       IN  Max(f[x], MaxOver(f, S \ {x}))

ScoreValues == 1..10

\* priorityByScore[score - 1] when fit.sigma is 0: expected is all zeros,
\* a deviation is the observed share.
priorityByScore(scores, score) ==
  LET deviations == [s \in ScoreValues |-> Max(0, Observed(scores, s))]
      maxDeviation == MaxOver(deviations, ScoreValues)
  IN  IF maxDeviation > 0 THEN (deviations[score] * Scale) \div maxDeviation
      ELSE 0

MaxBoost == (25 * Scale) \div 10

\* priorityBoost, given normality, the optimal count and the goal
BoostFor(normality, optimal, target) ==
  LET scarcity == Min(MaxBoost, (optimal * Scale) \div target)
  IN  Min(MaxBoost,
          Max(0, (((scarcity - Scale) * 12) \div 10) + (Scale - normality)))

\* The record priorityData holds, for lists whose scores are of one value
\* (fit.sigma is 0 and the branch that computes expected is not taken):
\* every catalog of this model is such a list.
ScoredPriority(entries, scores, boost) ==
  [scoreById |-> [id \in Range(IdsOf(entries)) |->
                    EntryOf(entries, id).myScore],
   priorityById |-> [id \in Range(IdsOf(entries)) |->
                       IF EntryOf(entries, id).myScore # Null
                            /\ EntryOf(entries, id).myScore # 0
                         THEN priorityByScore(scores,
                                              EntryOf(entries, id).myScore)
                         ELSE 0],
   priorityBoost |-> boost,
   sameScoreBoost |-> (boost * 3) \div 4]

\* The normality priorityData computes for itself, in units of 1/Scale,
\* for a list with fewer than ten scores or with scores of one value.
priorityNormality(scores) ==
  IF Len(scores) < ShortListLength
    THEN (IF SigmaIsZero(scores) THEN 0 ELSE Scale \div 2)
    ELSE 0

PriorityFor(entries, assumeLower, goal) ==
  IF Len(ScoresOf(entries)) = 0
    THEN [scoreById |-> [id \in Range(IdsOf(entries)) |->
                           EntryOf(entries, id).myScore],
          priorityById |-> [id \in Range(IdsOf(entries)) |-> 0],
          priorityBoost |-> 0,
          sameScoreBoost |-> 0]
    ELSE ScoredPriority(entries, ScoresOf(entries),
           BoostFor(priorityNormality(ScoresOf(entries)),
             Max(1, comparisonTargets(Len(entries),
                      comparisonScale(entries, assumeLower,
                        priorityNormality(ScoresOf(entries)))).optimal),
             Max(1, goal)))

priorityData ==
  PriorityFor(activeEntries, appliedAssumeDroppedLower, comparisonGoal)

\* Variant of pairAllowed: only the order Completed, Dropped is refused.
pairAllowed_OneWay(cat, aId, bId, assumeLower) ==
  IF ~assumeLower THEN TRUE
  ELSE ~(statusById(cat, aId) = "Completed"
           /\ statusById(cat, bId) = "Dropped")

pairAllowed(cat, aId, bId, assumeLower) ==
  IF ~assumeLower THEN TRUE
  ELSE ~(\/ /\ statusById(cat, aId) = "Completed"
            /\ statusById(cat, bId) = "Dropped"
         \/ /\ statusById(cat, aId) = "Dropped"
            /\ statusById(cat, bId) = "Completed")

\* The options selectAllowedPair passes to selectPair.
AppOptions(pd, avoid) ==
  [NoOptions EXCEPT !.avoidRepeats = avoid,
                    !.hasPriority = TRUE, !.priorityById = pd.priorityById,
                    !.priorityBoost = pd.priorityBoost,
                    !.hasScore = TRUE, !.scoreById = pd.scoreById,
                    !.sameScoreBoost = pd.sameScoreBoost]

RetryAttempts == 250

\* One pass of the loop of selectAllowedPair: s is what selectPair
\* returned, made counts the calls of selectPair so far.
AttemptResult(cat, assumeLower, s, made) ==
  [found |-> pairAllowed(cat, s.pair[1], s.pair[2], assumeLower),
   pair |-> s.pair, rng |-> s.rng, attempts |-> made,
   passes |-> s.passes, most |-> s.passes,
   fallbacks |-> IF s.path = "fallback" THEN 1 ELSE 0]

OneAttempt(ctx, allWeights, cat, assumeLower, rng, made) ==
  AttemptResult(cat, assumeLower,
    AfterLoop(ctx, RunPasses(ctx, allWeights, rng, ctx.opts.maxAttempts)),
    made + 1)

\* The passes and fallback draws of the calls of selectPair made so far
\* added to those of the calls that follow; most is the largest number of
\* passes one call made.
AfterCalls(first, rest) ==
  [rest EXCEPT !.passes = @ + first.passes,
               !.most = Max(@, first.most),
               !.fallbacks = @ + first.fallbacks]

\* n consecutive passes of that loop, stopping at the first that returns;
\* run as two halves one after the other.
RECURSIVE RunAttempts(_, _, _, _, _, _, _)
RECURSIVE MoreAttempts(_, _, _, _, _, _)
MoreAttempts(ctx, allWeights, cat, assumeLower, first, n) ==
  IF first.found THEN first
  ELSE AfterCalls(first,
         RunAttempts(ctx, allWeights, cat, assumeLower, first.rng, n,
                     first.attempts))

RunAttempts(ctx, allWeights, cat, assumeLower, rng, n, made) ==
  IF n = 1 THEN OneAttempt(ctx, allWeights, cat, assumeLower, rng, made)
  ELSE MoreAttempts(ctx, allWeights, cat, assumeLower,
         RunAttempts(ctx, allWeights, cat, assumeLower, rng, n \div 2, made),
         n - (n \div 2))

\* The index pairs (i, j), i < j, in the order the two nested loops visit
\* them; PairRank is the position of a pair in that order.
PairRank(i, j, n) == ((i - 1) * n) - ((i * (i - 1)) \div 2) + (j - i)

IndexPairs(n) ==
  [p \in 1..((n * (n - 1)) \div 2) |->
     CHOOSE q \in (1..n) \X (1..n) :
       q[1] < q[2] /\ PairRank(q[1], q[2], n) = p]

\* Variant of AllowedPairs: every pair is pushed.
AllowedPairs_Unfiltered(cat, ids, assumeLower) ==
  [p \in DOMAIN IndexPairs(Len(ids)) |->
     <<ids[IndexPairs(Len(ids))[p][1]], ids[IndexPairs(Len(ids))[p][2]]>>]

\* the array allowed after the two nested loops
AllowedPairs(cat, ids, assumeLower) ==
  SelectSeq([p \in DOMAIN IndexPairs(Len(ids)) |->
               <<ids[IndexPairs(Len(ids))[p][1]],
                 ids[IndexPairs(Len(ids))[p][2]]>>],
            LAMBDA q : pairAllowed(cat, q[1], q[2], assumeLower))

\* allowed[Math.floor(rngRef.current.nextFloat() * allowed.length)]
PickAllowed(allowed, made, next) ==
  [threw |-> "", pair |-> allowed[FloorDraw(next, Len(allowed)) + 1],
   rng |-> next, path |-> "enumerate", attempts |-> made]

\* The code after the loop of selectAllowedPair.
EnumerateAllowed(allowed, rng, made) ==
  IF Len(allowed) = 0
    THEN [threw |-> "", pair |-> NoPair, rng |-> rng, path |-> "null",
          attempts |-> made]
    ELSE PickAllowed(allowed, made, NextRngState(rng))

\* what the call returned, with the counts of the work its loop did
Counted(s, r) ==
  [threw |-> s.threw, pair |-> s.pair, rng |-> s.rng, path |-> s.path,
   attempts |-> s.attempts, passes |-> r.passes, most |-> r.most,
   fallbacks |-> r.fallbacks]

AfterAttempts(cat, ids, assumeLower, r) ==
  Counted(IF r.found
            THEN [threw |-> "", pair |-> r.pair, rng |-> r.rng,
                  path |-> "retry", attempts |-> r.attempts]
            ELSE EnumerateAllowed(AllowedPairs(cat, ids, assumeLower), r.rng,
                                  r.attempts),
          r)

AttemptsIn(ctx, cat, assumeLower, rng) ==
  AfterAttempts(cat, ctx.ids, assumeLower,
    RunAttempts(ctx, AllWeights(ctx), cat, assumeLower, rng,
                RetryAttempts, 0))

\* selectAllowedPair(elo, animeIds, avoid, assumeLower) with the random
\* source in state rng, pd being priorityData and cat the imported list:
\* the pair returned (NoPair for null), the state the random source is
\* left in, the path taken and the number of calls of selectPair made.
selectAllowedPair(H, e, ids, avoid, assumeLower, pd, cat, rng) ==
  IF Len(ids) < 2
    THEN [threw |-> "Need at least 2 anime to compare", pair |-> NoPair,
          rng |-> rng, path |-> "throw", attempts |-> 1, passes |-> 0,
          most |-> 0, fallbacks |-> 0]
    ELSE AttemptsIn(CallContext(H, e, ids, AppOptions(pd, avoid)),
                    cat, assumeLower, rng)

\* skipDecision: the doubled outcome of the auto-decision for the pair on
\* screen, or Undefined where the code has null.
skipDecision(cat, pair) ==
  LET left == EntryOf(cat, pair[1])
      right == EntryOf(cat, pair[2])
      leftScore == IF left.myScore = Null THEN 0 ELSE left.myScore
      rightScore == IF right.myScore = Null THEN 0 ELSE right.myScore
  IN  IF left.status = right.status /\ leftScore = rightScore THEN Undefined
      ELSE IF leftScore # rightScore
        THEN (IF leftScore > rightScore THEN 2 ELSE 0)
      ELSE 1

----------------------------------------------------------------------------
(* The App component: one action per user event and one for the           *)
(* pair-selection effect.  State that is read by no modelled handler      *)
(* (media cache, display toggles, the results tables) is left out, and so  *)
(* are the K-factor slider (kFactor stays at its initial value) and the    *)
(* copy of the session kept in localStorage.                               *)

\* An imported list: ids in list order, a status each, a score or none.
\* Completed and Dropped entries make pairs the ordering assumption
\* forbids; the two On-Hold entries are a pair it never forbids.
Catalogs ==
  {<<[animeId |-> 1, status |-> "Completed", myScore |-> 7],
     [animeId |-> 2, status |-> "Dropped", myScore |-> 7],
     [animeId |-> 3, status |-> "On-Hold", myScore |-> Null],
     [animeId |-> 4, status |-> "On-Hold", myScore |-> Null]>>}

\* Values Date.now() takes when a list is imported.
ImportSeeds == {9, 42}

InitialKFactor == 32

ExhaustedMessage == "No valid pairs available with current assumptions."

\* The state updater of the effect that follows an import: the ticked
\* statuses the list has, or else the default choice.
DefaultFilter(prev, cat) ==
  LET filtered == prev \cap allStatuses(cat)
      defaults == allStatuses(cat) \ {"Plan to Watch", "Watching"}
  IN  IF filtered # {} THEN filtered
      ELSE IF defaults # {} THEN defaults
      ELSE allStatuses(cat)

\* The dependencies of the effect that sets the slider, and the value it
\* sets.
TargetDeps == <<catalog, settingsConfirmed, guidance.optimal, sliderMax>>

SuggestedTarget == Min(Max(0, guidance.optimal), sliderMax)

\* comparisonsTarget after an event that leaves it at value and after the
\* effect, which runs when one of its dependencies changed (newExport: the
\* event stored a new exportData object).
TargetEffect(value, newExport) ==
  comparisonsTarget' =
    IF /\ newExport \/ TargetDeps' # TargetDeps
       /\ catalog' # <<>>
       /\ ~settingsConfirmed'
      THEN SuggestedTarget'
      ELSE value

\* The dependencies of the pair-selection effect, by value.  The last of
\* them, the callback selectAllowedPair, is a new function when statusById
\* is a new map (a list was imported) or priorityData was computed anew,
\* which is when one of the dependencies of that memo changed.
EffectDeps ==
  <<settingsConfirmed, eloState, currentPair, appliedAnimeIds, avoidRepeats,
    assumeDroppedLower, appliedSettings, catalog, activeAnimeIds,
    appliedAssumeDroppedLower, comparisonGoal>>

\* The condition under which the effect goes on to select a pair.
EffectGuard ==
  /\ settingsConfirmed
  /\ eloState # Null
  /\ currentPair = NoPair
  /\ Len(appliedAnimeIds) > 0

\* After an event: the effect is due when a dependency changed (newObject:
\* the event stored a new object in one of them) and it would go on to
\* select; a run that returns at once changes nothing and is not a step.
EffectAfter(newObject) ==
  /\ effectPending' = ((newObject \/ EffectDeps' # EffectDeps) /\ EffectGuard')
  /\ effectPending' => selections < MaxSelections

\* The objects the state at address e is made of, and nothing else: the
\* state the App lets go of is garbage.
Collect(H, e) ==
  LET elo == H.elo[e]
      entries == H.map[elo.ratings]
  IN  [rating |-> [i \in 1..Len(entries) |-> H.rating[entries[i][2]]],
       map |-> <<[i \in 1..Len(entries) |-> <<entries[i][1], i>>]>>,
       set |-> <<H.set[elo.pairHistory]>>,
       elo |-> <<[elo EXCEPT !.ratings = 1, !.pairHistory = 1]>>]

AppStart ==
  /\ heap = EmptyHeap
  /\ animeIds = <<>>
  /\ origin = <<>>
  /\ lastCall = IdleCall
  /\ AppIdle

\* The user chooses the sidebar settings before a ranking is started, not
\* while pairs are being compared; after the sampler has reported that no
\* pair is left the ordering assumption is the setting the user changes.
Choosing == ~settingsConfirmed

Relaxing == settingsConfirmed /\ pairError # NoError

\* handleFile: a list is imported, the random source is seeded anew and
\* the ranking state is dropped; the two effects that follow set the
\* ticked statuses and the slider.
ImportFile ==
  /\ ~effectPending
  /\ \E cat \in Catalogs, seed \in ImportSeeds :
       /\ catalog' = cat
       /\ rngState' = createRng(seed)
       /\ statusFilter' = DefaultFilter(statusFilter, cat)
  /\ settingsConfirmed' = FALSE
  /\ appliedSettings' = NoSettings
  /\ appliedAnimeIds' = <<>>
  /\ eloState' = Null
  /\ currentPair' = NoPair
  /\ autoDecisions' = 0
  /\ pairError' = NoError
  /\ heap' = EmptyHeap
  /\ lastCall' = IdleCall
  /\ selections' = 0
  /\ UNCHANGED <<assumeDroppedLower, avoidRepeats, animeIds, origin>>
  /\ TargetEffect(comparisonsTarget, TRUE)
  /\ EffectAfter(TRUE)

\* A status checkbox is ticked or cleared.
ToggleStatus ==
  /\ ~effectPending
  /\ Choosing
  /\ \E status \in allStatuses(catalog) :
       statusFilter' = IF status \in statusFilter
                         THEN statusFilter \ {status}
                         ELSE statusFilter \cup {status}
  /\ UNCHANGED <<heap, animeIds, origin, lastCall, rngState, catalog,
                 assumeDroppedLower, avoidRepeats, settingsConfirmed,
                 appliedSettings, appliedAnimeIds, eloState, currentPair,
                 autoDecisions, pairError, selections>>
  /\ TargetEffect(comparisonsTarget, FALSE)
  /\ EffectAfter(FALSE)

\* The checkbox "Dropped is worse than Completed".
ToggleAssumeDroppedLower ==
  /\ ~effectPending
  /\ Choosing \/ Relaxing
  /\ catalog # <<>>
  /\ assumeDroppedLower' = ~assumeDroppedLower
  /\ UNCHANGED <<heap, animeIds, origin, lastCall, rngState, catalog,
                 statusFilter, avoidRepeats, settingsConfirmed,
                 appliedSettings, appliedAnimeIds, eloState, currentPair,
                 autoDecisions, pairError, selections>>
  /\ TargetEffect(comparisonsTarget, FALSE)
  /\ EffectAfter(FALSE)

\* The checkbox "Avoid repeating the same pair".
ToggleAvoidRepeats ==
  /\ ~effectPending
  /\ Choosing
  /\ catalog # <<>>
  /\ avoidRepeats' = ~avoidRepeats
  /\ UNCHANGED <<heap, animeIds, origin, lastCall, rngState, catalog,
                 statusFilter, assumeDroppedLower, settingsConfirmed,
                 appliedSettings, appliedAnimeIds, eloState, currentPair,
                 autoDecisions, pairError, selections>>
  /\ TargetEffect(comparisonsTarget, FALSE)
  /\ EffectAfter(FALSE)

\* The slider is moved.
SetComparisonsTarget ==
  /\ ~effectPending
  /\ Choosing
  /\ catalog # <<>>
  /\ UNCHANGED <<heap, animeIds, origin, lastCall, rngState, catalog,
                 statusFilter, assumeDroppedLower, avoidRepeats,
                 settingsConfirmed, appliedSettings, appliedAnimeIds,
                 eloState, currentPair, autoDecisions, pairError, selections>>
  /\ \E value \in 0..Min(sliderMax, MaxSelections) :
       /\ value # comparisonsTarget
       /\ TargetEffect(value, FALSE)
  /\ EffectAfter(FALSE)

\* Variant of startRanking: a store that exists is kept, setEloState is
\* only called when there is none.
StartRanking_KeepingStore ==
  /\ ~effectPending
  /\ Len(selectedEntries) >= 2
  /\ Len(selectedIds) > 0
  /\ \E r \in {createEloState(EmptyHeap, selectedIds, InitialKFactor,
                              InitialRatingDefault)} :
       /\ heap' = IF eloState = Null THEN r.heap ELSE heap
       /\ eloState' = IF eloState = Null THEN r.addr ELSE eloState
  /\ currentPair' = NoPair
  /\ autoDecisions' = 0
  /\ pairError' = NoError
  /\ settingsConfirmed' = TRUE
  /\ appliedAnimeIds' = selectedIds
  /\ appliedSettings' =
       <<[comparisonsTarget |-> comparisonsTarget,
          kFactor |-> InitialKFactor,
          avoidRepeats |-> avoidRepeats,
          assumeDroppedLower |-> assumeDroppedLower,
          statuses |-> statusFilter,
          malNormality |-> malNormality(selectedEntries),
          normalityMultiplier |->
            normalityMultiplier(malNormality(selectedEntries))]>>
  /\ lastCall' = [op |-> "startRanking",
                  replaced |-> IF eloState = Null THEN Null
                               ELSE heap.elo[eloState].comparisons]
                   @@ IdleCall
  /\ UNCHANGED <<animeIds, origin, rngState, catalog, statusFilter,
                 assumeDroppedLower, avoidRepeats, selections>>
  /\ TargetEffect(comparisonsTarget, FALSE)
  /\ EffectAfter(TRUE)

\* startRanking, from the button "Start ranking" / "Reset ranking", which
\* is disabled while fewer than two entries are selected.
StartRanking ==
  /\ ~effectPending
  /\ Len(selectedEntries) >= 2
  /\ Len(selectedIds) > 0
  /\ \E r \in {createEloState(EmptyHeap, selectedIds, InitialKFactor,
                              InitialRatingDefault)} :
       /\ heap' = r.heap
       /\ eloState' = r.addr
  /\ currentPair' = NoPair
  /\ autoDecisions' = 0
  /\ pairError' = NoError
  /\ settingsConfirmed' = TRUE
  /\ appliedAnimeIds' = selectedIds
  /\ appliedSettings' =
       <<[comparisonsTarget |-> comparisonsTarget,
          kFactor |-> InitialKFactor,
          avoidRepeats |-> avoidRepeats,
          assumeDroppedLower |-> assumeDroppedLower,
          statuses |-> statusFilter,
          malNormality |-> malNormality(selectedEntries),
          normalityMultiplier |->
            normalityMultiplier(malNormality(selectedEntries))]>>
  /\ lastCall' = [op |-> "startRanking",
                  replaced |-> IF eloState = Null THEN Null
                               ELSE heap.elo[eloState].comparisons]
                   @@ IdleCall
  /\ UNCHANGED <<animeIds, origin, rngState, catalog, statusFilter,
                 assumeDroppedLower, avoidRepeats, selections>>
  /\ TargetEffect(comparisonsTarget, FALSE)
  /\ EffectAfter(TRUE)

\* What a call of selectAllowedPair leaves behind, s being its result;
\* lastCall also keeps the values the dependencies of the effect have once
\* the call is over.
SelectionMade(s, op, a, b, outcome2) ==
  /\ rngState' = s.rng
  /\ selections' = selections + 1
  /\ lastCall' = [IdleCall EXCEPT
                    !.op = op, !.input = eloState, !.a = a, !.b = b,
                    !.outcome = outcome2, !.ids = appliedAnimeIds,
                    !.threw = s.threw, !.pair = s.pair, !.path = s.path,
                    !.attempts = s.attempts, !.deps = EffectDeps',
                    !.passes = s.passes, !.most = s.most,
                    !.fallbacks = s.fallbacks,
                    !.from = rngState, !.rng = s.rng]

\* The pair-selection effect, when it goes on to select.
PairSelectionEffect ==
  /\ effectPending
  /\ EffectGuard
  /\ UNCHANGED <<heap, animeIds, origin, catalog, statusFilter,
                 assumeDroppedLower, avoidRepeats, comparisonsTarget,
                 settingsConfirmed, appliedSettings, appliedAnimeIds,
                 eloState, autoDecisions>>
  /\ \E s \in {selectAllowedPair(heap, eloState, appliedAnimeIds,
                 appliedAvoidRepeats, appliedAssumeDroppedLower,
                 priorityData, catalog, rngState)} :
       /\ currentPair' = s.pair
       /\ pairError' = IF s.pair = NoPair THEN ExhaustedMessage
                       ELSE pairError
       /\ SelectionMade(s, "effect", 0, 0, 0)
  /\ effectPending' = (EffectDeps' # EffectDeps /\ EffectGuard')

\* applyOutcome(outcome): u is what recordOutcome returned.
Applied(u, outcome2) ==
  \E s \in {selectAllowedPair(u.heap, u.result, appliedAnimeIds,
              appliedAvoidRepeats, appliedAssumeDroppedLower,
              priorityData, catalog, rngState)} :
    /\ heap' = Collect(u.heap, u.result)
    /\ eloState' = 1
    /\ currentPair' = s.pair
    /\ pairError' = IF s.pair = NoPair THEN ExhaustedMessage ELSE pairError
    /\ SelectionMade(s, "applyOutcome", currentPair[1], currentPair[2],
                     outcome2)

applyOutcome(outcome2) ==
  /\ eloState # Null
  /\ currentPair # NoPair
  /\ selections < MaxSelections
  /\ UNCHANGED <<animeIds, origin, catalog, statusFilter,
                 assumeDroppedLower, avoidRepeats, comparisonsTarget,
                 settingsConfirmed, appliedSettings, appliedAnimeIds>>
  /\ \E u \in {recordOutcome(heap, eloState, currentPair[1], currentPair[2],
                             outcome2)} :
       Applied(u, outcome2)
  /\ EffectAfter(TRUE)

\* Variant of Comparing: done is not looked at.
Comparing_WhenDone == ~effectPending /\ currentPair # NoPair

\* The compare panel is on screen, and the key handler listens.
Comparing == ~effectPending /\ currentPair # NoPair /\ ~done

\* A click on one of the two cards, or the key A or D.
Vote ==
  /\ Comparing
  /\ \E outcome2 \in {2, 0} : applyOutcome(outcome2)
  /\ UNCHANGED autoDecisions

\* applyAutoSkip, from the button "Skip (use score)" or the key S.
AutoSkip ==
  /\ Comparing
  /\ skipDecision(catalog, currentPair) # Undefined
  /\ autoDecisions' = autoDecisions + 1
  /\ applyOutcome(skipDecision(catalog, currentPair))

\* The button "Finish now".
FinishNow ==
  /\ Comparing
  /\ eloState # Null
  /\ appliedSettings' =
       IF appliedSettings # NoSettings
         THEN <<[appliedSettings[1] EXCEPT
                   !.comparisonsTarget = heap.elo[eloState].comparisons]>>
         ELSE appliedSettings
  /\ UNCHANGED <<heap, animeIds, origin, lastCall, rngState, catalog,
                 statusFilter, assumeDroppedLower, avoidRepeats,
                 settingsConfirmed, appliedAnimeIds, eloState, currentPair,
                 autoDecisions, pairError, selections>>
  /\ TargetEffect(heap.elo[eloState].comparisons, FALSE)
  /\ EffectAfter(TRUE)

\* resultsMetadata: the two counters of the export, in a sequence that is
\* empty where the code has null.
resultsMetadata ==
  IF catalog = <<>> \/ eloState = Null THEN <<>>
  ELSE <<[comparisons |-> heap.elo[eloState].comparisons,
          skipped |-> heap.elo[eloState].skips]>>

NextApp ==
  \/ ImportFile
  \/ ToggleStatus
  \/ ToggleAssumeDroppedLower
  \/ ToggleAvoidRepeats
  \/ SetComparisonsTarget
  \/ StartRanking
  \/ PairSelectionEffect
  \/ Vote
  \/ AutoSkip
  \/ FinishNow

SpecApp == AppStart /\ [][NextApp]_vars

----------------------------------------------------------------------------
(* Properties of the App session (specification SpecApp).                  *)

\* One of the two entries is Completed and the other Dropped.
CrossesBoundary(cat, aId, bId) ==
  {EntryOf(cat, aId).status, EntryOf(cat, bId).status}
    = {"Completed", "Dropped"}

\* The session runs with the ordering assumption applied.
AssumptionApplied ==
  appliedSettings # NoSettings /\ appliedSettings[1].assumeDroppedLower

\* Every pair of distinct session ids is a Completed-Dropped pair.
NoLegalPair ==
  \A aId \in Range(appliedAnimeIds), bId \in Range(appliedAnimeIds) :
    aId # bId => CrossesBoundary(catalog, aId, bId)

SelectionOps == {"effect", "applyOutcome"}

\* C8: while the ordering assumption is applied, the pair on screen, the
\* pair the last call of selectAllowedPair returned, the pair its
\* enumeration of the allowed pairs would return from the present state,
\* and every pair an outcome was recorded for are pairs that do not
\* compare a Completed entry with a Dropped one.
C8_OnlyLegalPairsOffered ==
  AssumptionApplied =>
    /\ currentPair # NoPair =>
         ~CrossesBoundary(catalog, currentPair[1], currentPair[2])
    /\ lastCall.op \in SelectionOps /\ lastCall.pair # NoPair =>
         ~CrossesBoundary(catalog, lastCall.pair[1], lastCall.pair[2])
    /\ \A r \in {EnumerateAllowed(
                   AllowedPairs(catalog, appliedAnimeIds, TRUE),
                   rngState, RetryAttempts)} :
         r.pair # NoPair =>
           /\ r.pair[1] # r.pair[2]
           /\ {r.pair[1], r.pair[2]} \subseteq Range(appliedAnimeIds)
           /\ ~CrossesBoundary(catalog, r.pair[1], r.pair[2])
    /\ eloState # Null =>
         \A key \in heap.set[heap.elo[eloState].pairHistory] :
           ~CrossesBoundary(catalog, key[1], key[2])

\* A pair is on screen in a session that holds Completed and Dropped
\* entries and has a recorded outcome, after selectPair's pair was refused
\* at least once by the legality check.
C8_Witness ==
  /\ AssumptionApplied
  /\ currentPair # NoPair
  /\ lastCall.op \in SelectionOps
  /\ lastCall.path = "retry"
  /\ lastCall.attempts > 1
  /\ \E aId \in Range(appliedAnimeIds), bId \in Range(appliedAnimeIds) :
       CrossesBoundary(catalog, aId, bId)
  /\ heap.elo[eloState].comparisons > 0

\* A step in which selectAllowedPair is called while no legal pair exists
\* among the session's ids: the call returns null after its attempts, the
\* error message is set, no pair is on screen, the store is the object it
\* was and reads as it did, and the effect is not due again.
C9_Step ==
  (selections' = selections + 1 /\ appliedAssumeDroppedLower /\ NoLegalPair)
    => /\ lastCall'.threw = ""
       /\ lastCall'.path = "null"
       /\ lastCall'.pair = NoPair
       /\ pairError' = ExhaustedMessage
       /\ currentPair' = NoPair
       /\ eloState' = eloState
       /\ heap' = heap
       /\ ~effectPending'

\* After the effect was told that no pair is left, it is due again only
\* when one of its dependencies is not what it was when that call ended.
C9_NoReattempt ==
  (lastCall.op = "effect" /\ lastCall.path = "null" /\ effectPending)
    => EffectDeps # lastCall.deps

\* C9: when no legal pair exists among the session's ids the sampler
\* returns null (it neither throws nor fails to return); the app sets the
\* error "No valid pairs available ...", leaves currentPair empty and the
\* rating store unchanged, and selects again only after a setting or the
\* state changed.
C9_ExhaustionIsReportedOnce == [][C9_Step]_vars /\ []C9_NoReattempt

\* The effect has found no legal pair among a Completed and a Dropped
\* entry, after all its attempts, and is not due.
C9_Witness ==
  /\ lastCall.op = "effect"
  /\ lastCall.path = "null"
  /\ lastCall.attempts = RetryAttempts
  /\ appliedAssumeDroppedLower /\ NoLegalPair
  /\ pairError = ExhaustedMessage
  /\ currentPair = NoPair
  /\ ~effectPending

\* C10: in a started session, once the checkbox "Dropped is worse than
\* Completed" is off and the pair-selection effect has run, a pair is on
\* screen: exhaustion ends when the user switches the assumption off, the
\* session and its rating store staying the ones they were.
C10_PairOfferedOnceAssumptionIsOff ==
  (/\ settingsConfirmed
   /\ eloState # Null
   /\ lastCall.op = "effect"
   /\ ~assumeDroppedLower
   /\ ~effectPending)
    => currentPair # NoPair

----------------------------------------------------------------------------
(* random.ts driven directly: a random source made by createRng(seed) and  *)
(* asked for numbers.  rngState holds the source's state, selections the   *)
(* number of calls of nextFloat made.                                      *)

\* Calls of nextFloat made on one random source.
MaxDraws == 12

\* The seeds given to createRng: zero, small ones of both signs, the seeds
\* of the tests, and the seeds around the modulus and its negative.
RngSeeds ==
  {0, 1, 0 - 1, 9, 42, 123456789, 0 - 123456789,
   Modulus - 1, Modulus, 1 - Modulus, 0 - Modulus, 2 - Modulus}

\* const rng = createRng(seed)
InitRng ==
  /\ heap = EmptyHeap
  /\ animeIds = <<>>
  /\ origin = <<>>
  /\ \E seed \in RngSeeds :
       /\ rngState = createRng(seed)
       /\ lastCall = [IdleCall EXCEPT !.op = "createRng", !.seed = seed,
                                       !.from = createRng(seed),
                                       !.rng = createRng(seed)]
  /\ catalog = <<>>
  /\ statusFilter = {}
  /\ assumeDroppedLower = TRUE
  /\ avoidRepeats = TRUE
  /\ comparisonsTarget = 0
  /\ settingsConfirmed = FALSE
  /\ appliedSettings = NoSettings
  /\ appliedAnimeIds = <<>>
  /\ eloState = Null
  /\ currentPair = NoPair
  /\ autoDecisions = 0
  /\ pairError = NoError
  /\ effectPending = FALSE
  /\ selections = 0

\* rng.nextFloat(): state = (state * 48271) % 2147483647
NextFloatCall ==
  /\ selections < MaxDraws
  /\ rngState' = NextRngState(rngState)
  /\ selections' = selections + 1
  /\ lastCall' = [lastCall EXCEPT !.op = "nextFloat", !.from = rngState,
                                  !.rng = NextRngState(rngState)]
  /\ UNCHANGED <<heap, animeIds, origin, catalog, statusFilter,
                 assumeDroppedLower, avoidRepeats, comparisonsTarget,
                 settingsConfirmed, appliedSettings, appliedAnimeIds,
                 eloState, currentPair, autoDecisions, pairError,
                 effectPending>>

\* The item lists and weight vectors weightedChoice is called with: those
\* of the tests (one item; a weight of 0; all weights 0; a negative total;
\* equal weights) and vectors with a 0 between, or a negative beside,
\* positive weights.
ChoiceCases ==
  {<<<<"only">>, <<1>>>>,
   <<<<"never", "always">>, <<0, 1>>>>,
   <<<<"a", "b", "c">>, <<0, 0, 0>>>>,
   <<<<"a", "b">>, <<0 - 5, 0 - 5>>>>,
   <<<<"a", "b">>, <<3, 0 - 3>>>>,
   <<<<"a", "b", "c">>, <<1, 1, 1>>>>,
   <<<<"a", "b", "c">>, <<1, 0, 2>>>>,
   <<<<"a", "b", "c">>, <<0, 3, 0>>>>,
   <<<<"a", "b", "c">>, <<2, 0 - 1, 1>>>>}

\* weightedChoice(items, weights, rng): one more call of nextFloat
WeightedChoiceCall ==
  /\ selections < MaxDraws
  /\ \E case \in ChoiceCases :
     \E r \in {weightedChoice(case[1], case[2], rngState)} :
       /\ rngState' = r.rng
       /\ lastCall' = [op |-> "weightedChoice", items |-> case[1],
                       weights |-> case[2], item |-> r.item,
                       from |-> rngState, rng |-> r.rng,
                       seed |-> lastCall.seed] @@ IdleCall
  /\ selections' = selections + 1
  /\ UNCHANGED <<heap, animeIds, origin, catalog, statusFilter,
                 assumeDroppedLower, avoidRepeats, comparisonsTarget,
                 settingsConfirmed, appliedSettings, appliedAnimeIds,
                 eloState, currentPair, autoDecisions, pairError,
                 effectPending>>

NextRng == NextFloatCall \/ WeightedChoiceCall

SpecRng == InitRng /\ [][NextRng]_vars

----------------------------------------------------------------------------
(* scoring.ts: the normal fit and the percentile.  Numbers are held in     *)
(* units of 1/Scale, as everywhere.                                        *)

\* a * b for two numbers in units of 1/Scale
Mul(a, b) == (a * b) \div Scale

\* Math.max(0, Math.min(1, x))
Clamp01(x) == Max(0, Min(Scale, x))

\* The integer part of the square root of n >= 0, by bisection between lo
\* and hi (lo * lo <= n < hi * hi).
RECURSIVE SqrtBetween(_, _, _)
SqrtBetween(n, lo, hi) ==
  IF hi - lo <= 1 THEN lo
  ELSE IF ((lo + hi) \div 2) * ((lo + hi) \div 2) <= n
    THEN SqrtBetween(n, (lo + hi) \div 2, hi)
  ELSE SqrtBetween(n, lo, (lo + hi) \div 2)

Isqrt(n) == SqrtBetween(n, 0, 46340)

\* Math.exp(-x) for x >= 0: e^(-1/2) for every half in x, the power series
\* for what is left.
RECURSIVE ExpNeg(_)
ExpNeg(x) ==
  IF x >= 12 * Scale THEN 0
  ELSE IF x < Scale \div 2 THEN (Scale * Scale) \div ExpSmall(x)
  ELSE (6065 * ExpNeg(x - (Scale \div 2))) \div Scale

\* erf(x): the approximation the code uses, with its five coefficients
\* and p = 0.3275911 rounded to 1/Scale.
erf(x) ==
  LET sign == IF x < 0 THEN 0 - 1 ELSE 1
      absX == Abs(x)
      t == (Scale * Scale) \div (Scale + ((3276 * absX) \div Scale))
      p4 == Mul(10614, t) - 14532
      p3 == Mul(p4, t) + 14214
      p2 == Mul(p3, t) - 2845
      poly == Mul(p2, t) + 2548
      y == Scale - Mul(Mul(poly, t), ExpNeg(Mul(absX, absX)))
  IN  IF absX >= 4 * Scale THEN sign * Scale ELSE sign * y

\* normalCdf(z) = 0.5 * (1 + erf(z / Math.sqrt(2))); beyond eight standard
\* deviations the value is 0 or 1 to the last digit kept.
normalCdf(z) ==
  (Scale + erf((Max(0 - (8 * Scale), Min(8 * Scale, z)) * 7071) \div Scale))
    \div 2

\* The unit the deviations from the mean are squared in (1/100).
Coarse == 100

\* fitNormal(values): mean and population standard deviation.
fitNormal(values) ==
  LET n == Len(values)
      mu == SumTo(values, n) \div n
      squares == [i \in 1..n |->
                    ((values[i] - mu) \div Coarse)
                      * ((values[i] - mu) \div Coarse)]
  IN  IF n = 0 THEN [mu |-> 0, sigma |-> 0]
      ELSE IF n <= 1 THEN [mu |-> mu, sigma |-> 0]
      ELSE [mu |-> mu, sigma |-> Coarse * Isqrt(SumTo(squares, n) \div n)]

\* percentile(value, fit)
percentile(value, fit) ==
  IF fit.sigma <= 0 THEN Scale \div 2
  ELSE Clamp01(normalCdf((((value - fit.mu) \div Coarse) * Scale)
                           \div (fit.sigma \div Coarse)))

\* Variant of score10FromPercentile: Math.floor(p * 10) + 1 in place of
\* Math.ceil(p * 10).
score10FromPercentile_Floor(p) ==
  IF p = NaN THEN NaN
  ELSE IF p <= 0 THEN 1
  ELSE IF p >= Scale THEN 10
  ELSE Max(1, Min(10, ((p * 10) \div Scale) + 1))

\* score10FromPercentile(p); Math.ceil(p * 10) for 0 < p < 1.  Both
\* comparisons are false for NaN, and Math.ceil, Math.min and Math.max
\* return NaN for it.
score10FromPercentile(p) ==
  IF p = NaN THEN NaN
  ELSE IF p <= 0 THEN 1
  ELSE IF p >= Scale THEN 10
  ELSE Max(1, Min(10, ((p * 10) + (Scale - 1)) \div Scale))

----------------------------------------------------------------------------
(* results.ts: the blend of Elo and list scores, and the result rows.      *)

\* base^(1/4) for 0 <= base <= 1
Root4(base) == Isqrt(Isqrt(base * Scale) * Scale)

\* base * root^quarters
RECURSIVE TimesRoot(_, _, _)
TimesRoot(base, root, quarters) ==
  IF quarters = 0 THEN base
  ELSE Mul(TimesRoot(base, root, quarters - 1), root)

\* Variant of Pow: the exponent is not used.
Pow_NoExponent(base, exponent) == base

\* Math.pow(base, exponent) for 0 <= base <= 1 and an exponent from 1 to 2
\* that is a multiple of 1/4: base times the fourth root of base, once for
\* each quarter above 1.
Pow(base, exponent) ==
  TimesRoot(base, Root4(base), (exponent - Scale) \div (Scale \div 4))

\* Variant of computeEloWeight: the arguments are used as they come.
computeEloWeight_Unclamped(completionRatio, normalityGiven) ==
  IF completionRatio < 0 THEN completionRatio
  ELSE IF completionRatio > Scale THEN Mul(completionRatio, completionRatio)
  ELSE Pow(completionRatio, Scale + (Scale - Clamp01(normalityGiven)))

\* computeEloWeight(completionRatio, malNormality)
computeEloWeight(completionRatio, normalityGiven) ==
  LET ratio == Max(0, Min(Scale, completionRatio))
      normality == Max(0, Min(Scale, normalityGiven))
      exponent == Scale + (Scale - normality)
  IN  Pow(ratio, exponent)

\* malScoreToPercentile(score, malFit), score being a whole number
malScoreToPercentile(score, malFit) ==
  IF malFit.sigma <= 0 THEN ((score - 1) * Scale) \div 9
  ELSE percentile(score * Scale, malFit)

\* computeItemConfidence(games, expectedGames), expectedGames being the
\* quotient expected[1] / expected[2]
computeItemConfidence(games, expected) ==
  IF expected[1] <= 0 \/ games <= 0 THEN 0
  ELSE Scale - ExpNeg((games * expected[2] * Scale) \div expected[1])

\* buildResults called without blending parameters.
NoBlending ==
  [given |-> FALSE, malNormality |-> 0, completionRatio |-> 0,
   malFit |-> [mu |-> 0, sigma |-> 0], totalComparisons |-> 0,
   itemCount |-> 0]

\* buildResults called without a status tier, and the tier the App passes
\* under the ordering assumption.
NoTier == [given |-> FALSE, tiers |-> [Dropped |-> 0]]

DroppedLast == [given |-> TRUE, tiers |-> [Dropped |-> 0 - 1]]

\* blending ? computeEloWeight(...) : 1
globalEloWeight(blending) ==
  IF blending.given
    THEN computeEloWeight(blending.completionRatio, blending.malNormality)
    ELSE Scale

\* expectedGamesPerItem, as numerator and denominator
expectedGamesPerItem(blending) ==
  IF blending.given /\ blending.itemCount > 0
    THEN <<blending.totalComparisons * 2, blending.itemCount>>
    ELSE <<2, 1>>

\* globalEloWeight * itemConfidence
effectiveEloWeight(rating, blending) ==
  Mul(globalEloWeight(blending),
      computeItemConfidence(rating.games, expectedGamesPerItem(blending)))

effectiveMalWeight(rating, blending) ==
  Scale - effectiveEloWeight(rating, blending)

\* blendedPercentile for one entry of the rating store
blendedPercentile(anime, rating, fit, blending) ==
  IF blending.given /\ anime.myScore # Null /\ anime.myScore > 0
    THEN Mul(effectiveEloWeight(rating, blending),
             percentile(rating.value, fit))
           + Mul(effectiveMalWeight(rating, blending),
                 malScoreToPercentile(anime.myScore, blending.malFit))
    ELSE percentile(rating.value, fit)

\* The first pass: one entry per entry of elo.ratings, in the order of the
\* Map.
FirstPass(cat, H, e, fit, percentileShift, blending) ==
  [i \in DOMAIN H.map[H.elo[e].ratings] |->
     [animeId |-> H.map[H.elo[e].ratings][i][1],
      anime |-> EntryOf(cat, H.map[H.elo[e].ratings][i][1]),
      rating |-> H.rating[H.map[H.elo[e].ratings][i][2]],
      percentile |->
        Clamp01(blendedPercentile(
                  EntryOf(cat, H.map[H.elo[e].ratings][i][1]),
                  H.rating[H.map[H.elo[e].ratings][i][2]], fit, blending)
                + percentileShift)]]

\* statusTier ? (statusTier[anime.status || ""] ?? 0) : 0
TierOf_Ignored(statusTier, status) == 0

TierOf(statusTier, status) ==
  IF statusTier.given /\ status \in DOMAIN statusTier.tiers
    THEN statusTier.tiers[status] ELSE 0

\* entries.sort(...): by tier descending, then by percentile descending;
\* the sort is stable.
SortEntries_Ascending(entries, statusTier) ==
  SortByKey(entries,
    [i \in DOMAIN entries |->
       ((0 - TierOf(statusTier, entries[i].anime.status)) * 2 * Scale)
         + entries[i].percentile])

SortEntries(entries, statusTier) ==
  SortByKey(entries,
    [i \in DOMAIN entries |->
       ((0 - TierOf(statusTier, entries[i].anime.status)) * 2 * Scale)
         - entries[i].percentile])

\* The second pass: the rows with their ranks.
SecondPass(entries) ==
  [index \in DOMAIN entries |->
     [rank |-> index,
      animeId |-> entries[index].animeId,
      status |-> entries[index].anime.status,
      myScore |-> entries[index].anime.myScore,
      elo |-> entries[index].rating.value,
      games |-> entries[index].rating.games,
      wins |-> entries[index].rating.wins,
      losses |-> entries[index].rating.losses,
      ties |-> entries[index].rating.ties,
      percentile |-> entries[index].percentile,
      score1to10 |-> score10FromPercentile(entries[index].percentile)]]

\* buildResults(animeById, elo, fit, statusTier, percentileShift, blending)
buildResults(cat, H, e, fit, statusTier, percentileShift, blending) ==
  SecondPass(SortEntries(
    FirstPass(cat, H, e, fit, percentileShift, blending), statusTier))

----------------------------------------------------------------------------
(* results.ts driven directly: a caller that records outcomes on its       *)
(* latest state and builds the result rows from it the way the App does    *)
(* (the fit of the Elo values, the fit of the list's scores), with         *)
(* completion ratio, normality, shift and tier of its choice.              *)

\* Lists with a Completed, a Dropped and an unscored entry: one whose two
\* scores differ, one whose two scores are the same.
ResultCatalogs ==
  {<<[animeId |-> 1, status |-> "Completed", myScore |-> 8],
     [animeId |-> 2, status |-> "Dropped", myScore |-> 7],
     [animeId |-> 3, status |-> "On-Hold", myScore |-> Null]>>,
   <<[animeId |-> 1, status |-> "Completed", myScore |-> 7],
     [animeId |-> 2, status |-> "Dropped", myScore |-> 7],
     [animeId |-> 3, status |-> "On-Hold", myScore |-> Null]>>}

PercentileShifts == {0, Scale \div 5}

BlendRatios == {Scale \div 2, Scale}

BlendNormalities == {0, Scale}

\* Array.from(eloState.ratings.values()).map((r) => r.value)
ValuesOf(H, e) ==
  [i \in DOMAIN H.map[H.elo[e].ratings] |->
     H.rating[H.map[H.elo[e].ratings][i][2]].value]

\* The blending parameters the App builds, for a completion ratio and a
\* normality.
BlendingFor(cat, H, e, ratio, normality) ==
  [given |-> TRUE, malNormality |-> normality, completionRatio |-> ratio,
   malFit |-> fitNormal([i \in DOMAIN ScoresOf(cat) |->
                           ScoresOf(cat)[i] * Scale]),
   totalComparisons |-> H.elo[e].comparisons,
   itemCount |-> Len(cat)]

InitResults ==
  /\ \E cat \in ResultCatalogs :
       /\ catalog = cat
       /\ animeIds = IdsOf(cat)
       /\ heap = createEloState(EmptyHeap, IdsOf(cat), InitialKFactor,
                                InitialRatingDefault).heap
  /\ origin = <<[op |-> "createEloState", input |-> Null, a |-> 0, b |-> 0,
                 outcome |-> 0]>>
  /\ lastCall = IdleCall
  /\ rngState = 1
  /\ statusFilter = {}
  /\ assumeDroppedLower = TRUE
  /\ avoidRepeats = TRUE
  /\ comparisonsTarget = 0
  /\ settingsConfirmed = FALSE
  /\ appliedSettings = NoSettings
  /\ appliedAnimeIds = <<>>
  /\ eloState = Null
  /\ currentPair = NoPair
  /\ autoDecisions = 0
  /\ pairError = NoError
  /\ effectPending = FALSE
  /\ selections = 0

ResultsFrame ==
  UNCHANGED <<heap, animeIds, origin, rngState, catalog, statusFilter,
              assumeDroppedLower, avoidRepeats, comparisonsTarget,
              settingsConfirmed, appliedSettings, appliedAnimeIds, eloState,
              currentPair, autoDecisions, pairError, effectPending,
              selections>>

\* state = recordOutcome(state, aId, bId, outcome) with aId < bId
RecordForResults ==
  /\ Len(heap.elo) < MaxStates
  /\ \E e \in {Len(heap.elo)}, c \in ValidCalls(animeIds) :
       /\ c[1] < c[2]
       /\ \E r \in {recordOutcome(heap, e, c[1], c[2], c[3])} :
            /\ heap' = r.heap
            /\ origin' = Append(origin,
                           [op |-> "recordOutcome", input |-> e,
                            a |-> c[1], b |-> c[2], outcome |-> c[3]])
            /\ lastCall' = [IdleCall EXCEPT
                              !.op = "recordOutcome", !.input = e,
                              !.a = c[1], !.b = c[2], !.outcome = c[3],
                              !.result = r.result]
  /\ UNCHANGED <<animeIds, rngState, catalog, statusFilter,
                 assumeDroppedLower, avoidRepeats, comparisonsTarget,
                 settingsConfirmed, appliedSettings, appliedAnimeIds,
                 eloState, currentPair, autoDecisions, pairError,
                 effectPending, selections>>

\* What the last call of buildResults was given and what it returned.
ResultsCall(e, fit, statusTier, percentileShift, blending, rows) ==
  [op |-> "buildResults", input |-> e, fit |-> fit,
   statusTier |-> statusTier, percentileShift |-> percentileShift,
   blending |-> blending, rows |-> rows] @@ IdleCall

\* buildResults(animeById, state, fitNormal(values), statusTier,
\*              percentileShift, blending)
BuildResultsCall ==
  /\ lastCall.op # "buildResults"
  /\ \E statusTier \in {NoTier, DroppedLast},
        percentileShift \in PercentileShifts :
     \E e \in {Len(heap.elo)} :
     \E fit \in {fitNormal(ValuesOf(heap, e))} :
     \E blending \in {NoBlending}
          \cup {BlendingFor(catalog, heap, e, ratio, normality) :
                  ratio \in BlendRatios, normality \in BlendNormalities} :
       lastCall' = ResultsCall(e, fit, statusTier, percentileShift, blending,
                     buildResults(catalog, heap, e, fit, statusTier,
                                  percentileShift, blending))
  /\ ResultsFrame

\* The completion ratios and normalities computeEloWeight is called with:
\* every twentieth and every quarter, and values outside 0..1.
WeightRatios ==
  {(k * Scale) \div 20 : k \in 0..20} \cup {0 - (Scale \div 2), (3 * Scale) \div 2}

WeightNormalities ==
  {(k * Scale) \div 4 : k \in 0..4} \cup {0 - (Scale \div 2), (3 * Scale) \div 2}

\* computeEloWeight(ratio, normality), called before anything is recorded
ComputeEloWeightCall ==
  /\ lastCall.op = "none"
  /\ \E ratio \in WeightRatios, normality \in WeightNormalities :
       lastCall' = [op |-> "computeEloWeight", ratio |-> ratio,
                    normality |-> normality,
                    weight |-> computeEloWeight(ratio, normality)] @@ IdleCall
  /\ ResultsFrame

\* The percentiles score10FromPercentile is called with: every hundredth,
\* the values next to the bucket boundaries, values outside 0..1, and NaN.
ScorePercentiles ==
  {(k * Scale) \div 100 : k \in 0..100}
    \cup {((k * Scale) \div 10) + d : k \in 0..9, d \in {1, 0 - 1}}
    \cup {0 - (Scale \div 10), (3 * Scale) \div 2, NaN}

\* score10FromPercentile(p), called before anything is recorded
Score10FromPercentileCall ==
  /\ lastCall.op = "none"
  /\ \E p \in ScorePercentiles :
       lastCall' = [op |-> "score10FromPercentile", p |-> p,
                    score |-> score10FromPercentile(p)] @@ IdleCall
  /\ ResultsFrame

NextResults ==
  \/ RecordForResults
  \/ BuildResultsCall
  \/ ComputeEloWeightCall
  \/ Score10FromPercentileCall

SpecResults == InitResults /\ [][NextResults]_vars

----------------------------------------------------------------------------
(* Properties of selectPair, continued (specification SpecSelect).         *)

\* The state at address e built a second time: the calls that produced it
\* made again, on a heap that already holds another session, so that the
\* second state shares no object and no address with the first.
Renamed(r) == [heap |-> r.heap, addr |-> r.result]

Replayed(prev, call) ==
  Renamed(recordOutcome(prev.heap, prev.addr, call.a, call.b, call.outcome))

RECURSIVE Rebuilt(_)
Rebuilt(e) ==
  IF origin[e].op = "createEloState"
    THEN createEloState(
           createEloState(EmptyHeap, <<7, 8>>, heap.elo[e].kFactor,
                          InitialRatingDefault).heap,
           animeIds, heap.elo[e].kFactor, heap.elo[e].initialRating)
    ELSE Replayed(Rebuilt(origin[e].input), origin[e])

\* The position of an id in the list given to selectPair.
PositionIn(ids, id) == CHOOSE i \in DOMAIN ids : ids[i] = id

\* The candidates for anchor aId are in ascending distance from the
\* anchor's rating, equally distant ones in the order of the input list.
TiesInInputOrder(ctx, aId) ==
  LET c == Candidates(ctx, aId)
      dist == [id \in Range(ctx.ids) |->
                 Abs(ctx.rating[id].value - ctx.rating[aId].value)]
  IN  \A i \in DOMAIN c, j \in DOMAIN c :
        i < j =>
          \/ dist[c[i]] < dist[c[j]]
          \/ /\ dist[c[i]] = dist[c[j]]
             /\ PositionIn(ctx.ids, c[i]) < PositionIn(ctx.ids, c[j])

----------------------------------------------------------------------------
(* Termination of pair selection (specifications SpecApp and SpecSelect).  *)

\* The state of the random source after n calls of nextFloat.
RECURSIVE Advanced(_, _)
RECURSIVE AdvancedFrom(_, _)
AdvancedFrom(mid, n) == IF mid >= 0 THEN Advanced(mid, n) ELSE mid

Advanced(state, n) ==
  IF n = 0 THEN state
  ELSE IF n = 1 THEN NextRngState(state)
  ELSE AdvancedFrom(Advanced(state, n \div 2), n - (n \div 2))

\* Every pair of the list given to the last call is in the pairHistory of
\* the state given to it.
EveryPairSeen(ids, e) == AllPairKeys(ids) \subseteq HistoryOf(e)

\* The loop of selectPair made at most maxAttempts passes in each call, a
\* call that left the loop without a pair made all of them and then the
\* two draws of the fallback, and the random source was advanced by just
\* these draws (two per pass) and the one draw of the enumeration.
BoundedDraws(maxAttempts) ==
  /\ lastCall.most <= maxAttempts
  /\ lastCall.fallbacks <= lastCall.attempts
  /\ lastCall.passes >= (lastCall.fallbacks * maxAttempts)
                          + (lastCall.attempts - lastCall.fallbacks)
  /\ lastCall.passes <= lastCall.attempts * maxAttempts
  /\ lastCall.rng =
       Advanced(lastCall.from,
                (2 * lastCall.passes) + (2 * lastCall.fallbacks)
                  + (IF lastCall.path = "enumerate" THEN 1 ELSE 0))

\* C12: pair selection terminates with bounded work.  A call of
\* selectAllowedPair makes at most 250 calls of selectPair, then at most
\* one enumeration; each call of selectPair makes at most maxAttempts (200)
\* passes of two weighted draws, then one fallback of two uniform draws,
\* and returns a pair of the list also when every pair is in pairHistory
\* and avoidRepeats is on; selectAllowedPair returns null only when no
\* pair is legal.
C12_SelectionIsBounded ==
  /\ lastCall.op \in SelectionOps /\ lastCall.threw = "" =>
       /\ lastCall.attempts \in 1..RetryAttempts
       /\ lastCall.path \in {"retry", "enumerate", "null"}
       /\ lastCall.path # "retry" => lastCall.attempts = RetryAttempts
       /\ BoundedDraws(DefaultMaxAttempts)
       /\ rngState = lastCall.rng
       /\ lastCall.path = "null" <=> lastCall.pair = NoPair
       /\ lastCall.path = "null" =>
            Len(AllowedPairs(catalog, lastCall.ids,
                             appliedAssumeDroppedLower)) = 0
       /\ EveryPairSeen(lastCall.ids, eloState) /\ appliedAvoidRepeats =>
            /\ lastCall.fallbacks = lastCall.attempts
            /\ lastCall.passes = lastCall.attempts * DefaultMaxAttempts
  /\ Selected =>
       /\ BoundedDraws(lastCall.opts.maxAttempts)
       /\ lastCall.pair[1] \in Range(lastCall.ids)
       /\ lastCall.pair[2] \in Range(lastCall.ids)
       /\ EveryPairSeen(lastCall.ids, lastCall.input)
            /\ lastCall.opts.avoidRepeats =>
              /\ lastCall.path = "fallback"
              /\ lastCall.passes = lastCall.opts.maxAttempts

\* The App selected a pair from a list whose every pair had been compared,
\* with "Avoid repeating the same pair" applied: 200 rejected passes and
\* the fallback.
C12_Witness ==
  /\ lastCall.op \in SelectionOps
  /\ lastCall.threw = ""
  /\ eloState # Null
  /\ appliedAvoidRepeats
  /\ EveryPairSeen(lastCall.ids, eloState)
  /\ lastCall.fallbacks >= 1
  /\ lastCall.passes >= DefaultMaxAttempts
  /\ lastCall.pair # NoPair

----------------------------------------------------------------------------
(* Properties of the random source (specification SpecRng).                *)

\* C13: for every integer seed the state createRng starts from, and every
\* state nextFloat produces from it, lies in 1..modulus-1.
C13_StateInRange == rngState \in 1..(Modulus - 1)

----------------------------------------------------------------------------
(* Properties of the result rows and of the blend (specification           *)
(* SpecResults).                                                           *)

Built == lastCall.op = "buildResults"

\* The entries of the rating store the last call of buildResults read.
StoreEntries == heap.map[heap.elo[lastCall.input].ratings]

RatingOfEntry(i) == heap.rating[StoreEntries[i][2]]

AnimeOfEntry(i) == EntryOf(catalog, StoreEntries[i][1])

\* C14: with blending parameters whose completionRatio is 1, the blended
\* percentile of every item of the store, scored or not, is its Elo
\* percentile.
C14_PureEloAtTarget ==
  Built /\ lastCall.blending.given
        /\ lastCall.blending.completionRatio = Scale
    => \A i \in DOMAIN StoreEntries :
         blendedPercentile(AnimeOfEntry(i), RatingOfEntry(i), lastCall.fit,
                           lastCall.blending)
           = percentile(RatingOfEntry(i).value, lastCall.fit)

Weighed == lastCall.op = "computeEloWeight"

\* C15: computeEloWeight clamps both arguments to 0..1 first, is 0 at
\* ratio 0 and 1 at ratio 1 for every normality, and lies in 0..1.
C15_WeightEndpointsAndClamping ==
  Weighed =>
    /\ lastCall.weight = computeEloWeight(Clamp01(lastCall.ratio),
                                          Clamp01(lastCall.normality))
    /\ lastCall.weight \in 0..Scale
    /\ lastCall.ratio <= 0 => lastCall.weight = 0
    /\ lastCall.ratio >= Scale => lastCall.weight = Scale

\* A call with both arguments outside 0..1.
C15_Witness ==
  /\ Weighed
  /\ lastCall.ratio > Scale
  /\ lastCall.normality < 0
  /\ lastCall.weight = Scale

C17_MalWeightGrowsWithNormality ==
  Built /\ lastCall.blending.given
        /\ lastCall.blending.completionRatio > 0
        /\ lastCall.blending.completionRatio < Scale
    => \A i \in DOMAIN StoreEntries, higher \in WeightNormalities :
         higher > lastCall.blending.malNormality =>
           effectiveMalWeight(RatingOfEntry(i),
             [lastCall.blending EXCEPT !.malNormality = higher])
           >= effectiveMalWeight(RatingOfEntry(i), lastCall.blending)

\* The Elo percentile of row i with the shift applied.
ShiftedEloPercentile(row) ==
  Clamp01(percentile(row.elo, lastCall.fit) + lastCall.percentileShift)

\* C18: without blending parameters and without a status tier the rows
\* are one per item of the store, in descending order of Elo percentile,
\* and the rank of a row is its position: 1..n.
C18_RowsRankedByPercentile ==
  Built /\ ~lastCall.blending.given /\ ~lastCall.statusTier.given =>
    /\ Len(lastCall.rows) = Len(StoreEntries)
    /\ {lastCall.rows[i].animeId : i \in DOMAIN lastCall.rows}
         = MapKeys(StoreEntries)
    /\ \A i \in DOMAIN lastCall.rows :
         /\ lastCall.rows[i].rank = i
         /\ lastCall.rows[i].elo
              = ratingFor(heap, lastCall.input, lastCall.rows[i].animeId).value
         /\ lastCall.rows[i].percentile = ShiftedEloPercentile(lastCall.rows[i])
    /\ \A i \in DOMAIN lastCall.rows, j \in DOMAIN lastCall.rows :
         i < j => lastCall.rows[i].percentile >= lastCall.rows[j].percentile

\* Rows in another order than the store's, the first with a strictly
\* higher percentile than the last.
C18_Witness ==
  /\ Built /\ ~lastCall.blending.given /\ ~lastCall.statusTier.given
  /\ lastCall.rows[1].animeId # StoreEntries[1][1]
  /\ lastCall.rows[1].percentile > lastCall.rows[Len(lastCall.rows)].percentile
  /\ lastCall.rows[Len(lastCall.rows)].rank = Len(StoreEntries)

\* C19: with the tier Dropped: -1 every Dropped item ranks after every
\* item that is not Dropped, whatever the percentiles, the scores and the
\* shift are, and within a tier the rows are in descending order of
\* percentile.
C19_DroppedRankLast ==
  Built /\ lastCall.statusTier.given =>
    /\ Len(lastCall.rows) = Len(StoreEntries)
    /\ \A i \in DOMAIN lastCall.rows, j \in DOMAIN lastCall.rows :
         /\ lastCall.rows[i].status = "Dropped"
              /\ lastCall.rows[j].status # "Dropped"
              => lastCall.rows[i].rank > lastCall.rows[j].rank
         /\ i < j /\ (lastCall.rows[i].status = "Dropped"
                        <=> lastCall.rows[j].status = "Dropped")
              => lastCall.rows[i].percentile >= lastCall.rows[j].percentile

\* The Dropped item is last although its percentile is strictly above
\* that of every other row, in a call with blending parameters.
C19_Witness ==
  /\ Built /\ lastCall.statusTier.given /\ lastCall.blending.given
  /\ lastCall.rows[Len(lastCall.rows)].status = "Dropped"
  /\ \A i \in 1..(Len(lastCall.rows) - 1) :
       lastCall.rows[i].percentile
         < lastCall.rows[Len(lastCall.rows)].percentile

----------------------------------------------------------------------------
(* The two normality computations (specification SpecApp).                 *)

\* C20: for the entries of the session, when fewer than ten of them have
\* a score, the normality of malScoreSummary and the normality priorityData
\* computes for the sampler are both 0.5.
C20_ShortListNormalityIsHalf ==
  Len(ScoresOf(activeEntries)) \in 1..(ShortListLength - 1) =>
    /\ malNormality(activeEntries) = Scale \div 2
    /\ priorityNormality(ScoresOf(activeEntries)) = Scale \div 2
----------------------------------------------------------------------------
(* comparisonTargets driven directly, from the state the App starts in.    *)

\* The item counts and comparison scales comparisonTargets is called with:
\* counts around 0 and up to a long list, scales around 0, the least and
\* the largest normality multiplier (0.35 and 1.2) and values between.
TargetCounts == {0 - 1, 0, 1, 2, 3, 4, 5, 7, 10, 25, 50, 200}

TargetScales ==
  {0 - (Scale \div 2), 0, 1, Scale \div 100, Scale \div 16, Scale \div 4,
   (35 * Scale) \div 100, Scale \div 2, (3 * Scale) \div 4, Scale,
   (12 * Scale) \div 10}

\* comparisonTargets(n, comparisonScale)
ComparisonTargetsCall ==
  /\ \E n \in TargetCounts, scale \in TargetScales :
       lastCall' = [op |-> "comparisonTargets", n |-> n, scale |-> scale,
                    targets |-> comparisonTargets(n, scale)] @@ IdleCall
  /\ UNCHANGED <<heap, animeIds, origin, appVars>>

SpecTargets == AppStart /\ [][ComparisonTargetsCall]_vars

----------------------------------------------------------------------------
(* The App session that is answered to its end.                            *)

\* results, for the percentile shift and the blending parameters the App
\* has computed: an empty sequence where the code has null.
results(percentileShift, blending) ==
  IF eloState = Null THEN <<>>
  ELSE buildResults(catalog, heap, eloState,
                    fitNormal(ValuesOf(heap, eloState)),
                    IF appliedAssumeDroppedLower THEN DroppedLast ELSE NoTier,
                    percentileShift, blending)

\* The user answers the pair on screen.
Answer == Vote \/ AutoSkip

\* A state where the effect is due, and one where an answer can be given:
\* the guards of PairSelectionEffect and of Vote, each of which adds one to
\* selections and is therefore a step once its guard holds.
EffectDue == effectPending /\ EffectGuard

AnswerDue == Comparing /\ eloState # Null /\ selections < MaxSelections

\* Weak fairness of action A, written out with the state predicate Due in
\* the place of ENABLED <<A>>_vars.
\* The effect runs once it is due (React runs it after the render that
\* made it due), and the user answers whenever a pair is shown.
SpecAppLive ==
  /\ SpecApp
  /\ ([]<>(~EffectDue) \/ []<><<PairSelectionEffect>>_vars)
  /\ ([]<>(~AnswerDue) \/ []<><<Answer>>_vars)
----------------------------------------------------------------------------
(* Properties of comparisonTargets (specification SpecTargets).            *)

Targeted == lastCall.op = "comparisonTargets"

\* r is Math.round(((avgGames * n) / 2) * scale): r - 1/2 <= x < r + 1/2
RoundsTo(avgGames, n, scale, r) ==
  /\ 2 * Scale * r <= (avgGames * n * scale) + Scale
  /\ (avgGames * n * scale) + Scale < 2 * Scale * (r + 1)

\* total is max(1, round(avgGames * n / 2 * scale))
IsTarget(avgGames, n, scale, total) ==
  /\ total >= 1
  /\ \E r \in 0..total : RoundsTo(avgGames, n, scale, r) /\ total = Max(1, r)

\* C21: comparisonTargets(n, scale) is 0, 0, 0 when n <= 0 or scale <= 0;
\* otherwise its three targets are max(1, round(avg * n / 2 * scale)) for
\* avg = 2, 4 and 7, each at least 1, and minimum <= optimal <= excessive.
C21_TargetsAreFlooredAndOrdered ==
  Targeted =>
    IF lastCall.n <= 0 \/ lastCall.scale <= 0
      THEN lastCall.targets =
             [meaningfulMin |-> 0, optimal |-> 0, excessive |-> 0]
      ELSE /\ IsTarget(2, lastCall.n, lastCall.scale,
                       lastCall.targets.meaningfulMin)
           /\ IsTarget(4, lastCall.n, lastCall.scale,
                       lastCall.targets.optimal)
           /\ IsTarget(7, lastCall.n, lastCall.scale,
                       lastCall.targets.excessive)
           /\ lastCall.targets.meaningfulMin <= lastCall.targets.optimal
           /\ lastCall.targets.optimal <= lastCall.targets.excessive

\* A call with a positive count and scale whose rounded minimum is 0, so
\* that the floor of 1 is what makes the target, and whose excessive
\* target is above it.
C21_Witness ==
  /\ Targeted
  /\ lastCall.n > 0
  /\ lastCall.scale > 0
  /\ RoundsTo(2, lastCall.n, lastCall.scale, 0)
  /\ lastCall.targets.meaningfulMin = 1
  /\ lastCall.targets.excessive > 1

----------------------------------------------------------------------------
(* Properties of score10FromPercentile (specification SpecResults).        *)

Scored == lastCall.op = "score10FromPercentile"

\* score is what the claim says of a number p: 1 for p <= 0, 10 for
\* p >= 1, the ceiling of 10 * p in between, and not below the score of
\* any smaller input.
CeilingScore(p, score) ==
  /\ p <= 0 => score = 1
  /\ p >= Scale => score = 10
  /\ (0 < p /\ p < Scale) =>
       /\ (score - 1) * Scale < 10 * p
       /\ 10 * p <= score * Scale
  /\ \A q \in ScorePercentiles \ {NaN} :
       q <= p => score10FromPercentile(q) <= score

\* The score1to10 of every row buildResults returned is in 1..10.
RowScoresInRange ==
  lastCall.op = "buildResults" =>
    \A i \in DOMAIN lastCall.rows :
      /\ lastCall.rows[i].score1to10 \in 1..10
      /\ lastCall.rows[i].score1to10 =
           score10FromPercentile(lastCall.rows[i].percentile)

\* C22 as stated: score10FromPercentile(p) is an integer in 1..10 for every
\* input, 1 for p <= 0, 10 for p >= 1 and the ceiling of 10 * p in
\* between; it does not decrease as p grows; and the score1to10 of every
\* result row is in 1..10.
C22_ScoreInOneToTenForEveryInput ==
  /\ Scored =>
       /\ lastCall.score \in 1..10
       /\ IsNum(lastCall.p) => CeilingScore(lastCall.p, lastCall.score)
  /\ RowScoresInRange

\* C22, amended: the same for every input other than NaN (for NaN the
\* function returns NaN); no row of buildResults has such a percentile.
C22_ScoreIsCeilingInOneToTen ==
  /\ (Scored /\ IsNum(lastCall.p)) =>
       /\ lastCall.score \in 1..10
       /\ CeilingScore(lastCall.p, lastCall.score)
  /\ (Scored /\ lastCall.p = NaN) => lastCall.score = NaN
  /\ RowScoresInRange

\* The call just above a bucket boundary: 0.11 gives 2.
C22_Witness ==
  /\ Scored
  /\ lastCall.p = (11 * Scale) \div 100
  /\ lastCall.score = 2

----------------------------------------------------------------------------
(* Properties of weightedChoice (specification SpecRng).                   *)

Choice == lastCall.op = "weightedChoice"

TotalOf(weights) == SumTo(weights, Len(weights))

\* target <= running after item i was added, for the draw state / Modulus
Reaches(weights, i, state) ==
  /\ SumTo(weights, i) >= 0
  /\ ~FracLess(SumTo(weights, i), TotalOf(weights), state, Modulus)

\* C23: weightedChoice returns an item of the list for every non-empty
\* list, every weight vector of its length and every draw in [0, 1): with
\* a total weight <= 0 the item at the index floor(draw * length), and the
\* last item when no cumulative sum reaches the draw; never undefined.
C23_ChoiceIsAnItem ==
  Choice =>
    /\ lastCall.item \in Range(lastCall.items)
    /\ lastCall.rng \in 0..(Modulus - 1)
    /\ TotalOf(lastCall.weights) <= 0 =>
         /\ ~FracLess(lastCall.rng, Modulus,
                      PositionIn(lastCall.items, lastCall.item) - 1,
                      Len(lastCall.items))
         /\ FracLess(lastCall.rng, Modulus,
                     PositionIn(lastCall.items, lastCall.item),
                     Len(lastCall.items))
    /\ (/\ TotalOf(lastCall.weights) > 0
        /\ \A i \in DOMAIN lastCall.weights :
             ~Reaches(lastCall.weights, i, lastCall.rng)) =>
         lastCall.item = lastCall.items[Len(lastCall.items)]

\* A call with a negative total that returned the second of two items.
C23_Witness ==
  /\ Choice
  /\ lastCall.weights = <<0 - 5, 0 - 5>>
  /\ lastCall.item = "b"

\* C25: for every seed given to createRng and every weight vector with no
\* negative weight and a positive one, weightedChoice does not return an
\* item whose weight is 0.
C25_ZeroWeightNeverChosen ==
  (/\ Choice
   /\ \A i \in DOMAIN lastCall.weights : lastCall.weights[i] >= 0
   /\ \E i \in DOMAIN lastCall.weights : lastCall.weights[i] > 0) =>
    lastCall.weights[PositionIn(lastCall.items, lastCall.item)] # 0

----------------------------------------------------------------------------
(* Properties of the App session (specification SpecApp), continued.       *)

\* The store at address e of heap H is a fresh one for the id list ids.
FreshStore(H, e, ids) ==
  /\ [i \in DOMAIN H.map[H.elo[e].ratings] |-> H.map[H.elo[e].ratings][i][1]]
       = ids
  /\ \A i \in DOMAIN H.map[H.elo[e].ratings] :
       H.rating[H.map[H.elo[e].ratings][i][2]] =
         [value |-> 1500 * Scale, games |-> 0, wins |-> 0, losses |-> 0,
          ties |-> 0]
  /\ H.elo[e].comparisons = 0
  /\ H.elo[e].skips = 0
  /\ H.set[H.elo[e].pairHistory] = {}

\* A step of Start ranking / Reset ranking leaves a fresh store for the
\* selected entries, no pair and no auto-decision.
C24_ResetStep ==
  StartRanking =>
    /\ eloState' # Null
    /\ FreshStore(heap', eloState', selectedIds)
    /\ appliedAnimeIds' = selectedIds
    /\ settingsConfirmed'
    /\ currentPair' = NoPair
    /\ autoDecisions' = 0

\* A step that imports a list leaves no store and unconfirmed settings.
C24_ImportStep ==
  ImportFile =>
    /\ eloState' = Null
    /\ ~settingsConfirmed'
    /\ appliedSettings' = NoSettings
    /\ appliedAnimeIds' = <<>>
    /\ currentPair' = NoPair
    /\ autoDecisions' = 0

\* Without confirmed settings there is no store and no pair: a store
\* exists only from Start ranking on.
C24_NoStoreUntilStarted ==
  ~settingsConfirmed =>
    eloState = Null /\ currentPair = NoPair /\ autoDecisions = 0

\* C24: Start/Reset ranking replaces the rating store by a fresh one
\* (every selected item at 1500 with no games, wins, losses or ties,
\* comparisons 0, empty pairHistory) with no pair on screen and
\* autoDecisions 0; an import leaves no store and unconfirmed settings
\* until ranking is started again.
C24_StoreReplacedOnResetAndImport ==
  /\ [][C24_ResetStep]_vars
  /\ [][C24_ImportStep]_vars
  /\ []C24_NoStoreUntilStarted

\* Reset ranking was pressed in a session with a recorded comparison: the
\* store is fresh.
C24_Witness ==
  /\ lastCall.op = "startRanking"
  /\ lastCall.replaced # Null
  /\ lastCall.replaced > 0
  /\ eloState # Null
  /\ heap.elo[eloState].comparisons = 0
  /\ heap.set[heap.elo[eloState].pairHistory] = {}

----------------------------------------------------------------------------
(* Properties of the rating store (specification Spec), continued.         *)

RECURSIVE SumValues(_, _)
SumValues(e, ids) ==
  IF ids = {} THEN 0
  ELSE LET id == CHOOSE x \in ids : TRUE
       IN  RatingIn(e, id).value + SumValues(e, ids \ {id})

\* What the call that produced state e added to the rating value of id.
Gain(e, id) == RatingIn(e, id).value - RatingIn(origin[e].input, id).value

C28_OnlyThePairChanges ==
  \A e \in Recorded :
    /\ KeysOf(e) = KeysOf(origin[e].input)
    /\ \A id \in KeysOf(e) \ {origin[e].a, origin[e].b} :
         RatingIn(e, id) = RatingIn(origin[e].input, id)
    /\ \A id \in {origin[e].a, origin[e].b} :
         RatingIn(e, id).games = RatingIn(origin[e].input, id).games + 1
    /\ heap.elo[e].kFactor = heap.elo[origin[e].input].kFactor
    /\ heap.elo[e].initialRating = heap.elo[origin[e].input].initialRating
    /\ heap.elo[e].skips = heap.elo[origin[e].input].skips
    /\ heap.elo[e].comparisons = heap.elo[origin[e].input].comparisons + 1
    /\ HistoryOf(origin[e].input) \subseteq HistoryOf(e)
    /\ HistoryOf(e) = HistoryOf(origin[e].input)
                        \cup {pairKey(origin[e].a, origin[e].b)}

\* A second outcome, recorded for another pair than the first: the third
\* item is the one whose Rating stayed, and the history holds both keys.
C28_Witness ==
  \E e \in Recorded :
    /\ Depth(e) = 2
    /\ Cardinality(HistoryOf(e)) = 2
    /\ \E id \in KeysOf(e) \ {origin[e].a, origin[e].b} :
         RatingIn(e, id).games = 1

----------------------------------------------------------------------------
(* Properties of the App session (specification SpecApp): the counters.    *)

\* comparisons of the session's store
Comparisons(H, e) == H.elo[e].comparisons

\* A step of applyAutoSkip records an ordinary comparison and counts an
\* auto-decision; skips stays 0.
C29_AutoSkipStep ==
  AutoSkip =>
    /\ Comparisons(heap', eloState') = Comparisons(heap, eloState) + 1
    /\ autoDecisions' = autoDecisions + 1
    /\ heap'.elo[eloState'].skips = 0

\* C29: in every state of a session the store's skips is 0, an auto-skip
\* being recorded as a comparison (comparisons + 1, autoDecisions + 1), and
\* the 'skipped' of the exported metadata is 0.
C29_SkipsStayZero ==
  /\ [](eloState # Null => heap.elo[eloState].skips = 0)
  /\ [](\A i \in DOMAIN resultsMetadata : resultsMetadata[i].skipped = 0)
  /\ [][C29_AutoSkipStep]_vars

\* An auto-skip was just recorded: it counts as a comparison.
C29_Witness ==
  /\ lastCall.op = "applyOutcome"
  /\ autoDecisions > 0
  /\ eloState # Null
  /\ heap.elo[eloState].comparisons >= autoDecisions
  /\ resultsMetadata = <<[comparisons |-> heap.elo[eloState].comparisons,
                          skipped |-> 0]>>

\* A step that records an outcome in the session's store is taken while
\* the session is not done and a pair is on screen, and records one.
C30_RecordStep ==
  (/\ eloState # Null
   /\ eloState' # Null
   /\ Comparisons(heap', eloState') > Comparisons(heap, eloState)) =>
    /\ ~done
    /\ currentPair # NoPair
    /\ Comparisons(heap', eloState') = Comparisons(heap, eloState) + 1

\* Once the session is done its store stays what it is until the ranking
\* is reset or a list imported.
C30_DoneStep ==
  (done /\ eloState' # Null /\ lastCall'.op # "startRanking") =>
    /\ Deep(heap', eloState') = Deep(heap, eloState)
    /\ done'

\* C30: the recorded comparisons never exceed the applied goal: an outcome
\* is recorded only while the session is not done and a pair is shown,
\* and once it is done no outcome changes the store until a reset.
C30_NeverBeyondGoal ==
  /\ [](eloState # Null => heap.elo[eloState].comparisons <= comparisonGoal)
  /\ [][C30_RecordStep]_vars
  /\ [][C30_DoneStep]_vars

\* The goal of two comparisons is reached by answers, and the sampler has
\* put a further pair in currentPair.
C30_Witness ==
  /\ eloState # Null
  /\ done
  /\ comparisonGoal = 2
  /\ heap.elo[eloState].comparisons = 2
  /\ currentPair # NoPair
  /\ lastCall.op = "applyOutcome"

----------------------------------------------------------------------------
(* Properties of the answered session (specification SpecAppLive).         *)

\* Some pair of the session's ids may be compared.
LegalPairExists ==
  \E aId \in Range(appliedAnimeIds), bId \in Range(appliedAnimeIds) :
    aId # bId /\ pairAllowed(catalog, aId, bId, appliedAssumeDroppedLower)

\* The calls of selectAllowedPair the session needs to reach its goal are
\* within those the exploration makes.
WithinExploration ==
  selections + (IF currentPair = NoPair THEN 1 ELSE 0)
    + (comparisonGoal - heap.elo[eloState].comparisons) <= MaxSelections

Running ==
  /\ settingsConfirmed
  /\ eloState # Null
  /\ ~done
  /\ LegalPairExists
  /\ WithinExploration

\* The session was ended by an import or begun anew by Reset ranking.
Interrupted == eloState = Null \/ lastCall.op = "startRanking"

\* A step that records an answer adds one to comparisons, and the sampler
\* offers a pair after it when a legal pair exists.
C26_AnswerStep ==
  (/\ eloState # Null
   /\ eloState' # Null
   /\ Comparisons(heap', eloState') > Comparisons(heap, eloState)) =>
    /\ Comparisons(heap', eloState') = Comparisons(heap, eloState) + 1
    /\ LegalPairExists => (currentPair' # NoPair /\ pairError' = pairError)

\* The rows of results are those of the session's store: one per item,
\* ranked 1..n, with the rating value and the counts the store holds.
RowsOfStore(rows) ==
  /\ Len(rows) = Len(appliedAnimeIds)
  /\ {rows[i].animeId : i \in DOMAIN rows} = Range(appliedAnimeIds)
  /\ \A i \in DOMAIN rows :
       /\ rows[i].rank = i
       /\ rows[i].elo = ratingFor(heap, eloState, rows[i].animeId).value
       /\ rows[i].games = ratingFor(heap, eloState, rows[i].animeId).games
       /\ rows[i].wins = ratingFor(heap, eloState, rows[i].animeId).wins
       /\ rows[i].losses = ratingFor(heap, eloState, rows[i].animeId).losses
       /\ rows[i].ties = ratingFor(heap, eloState, rows[i].animeId).ties

\* In a done session comparisons is the goal, and results is built from
\* the store as it is then.
C26_DoneState ==
  (eloState # Null /\ done) =>
    /\ heap.elo[eloState].comparisons = comparisonGoal
    /\ \A percentileShift \in PercentileShifts :
         \A blending \in {NoBlending,
                          BlendingFor(activeEntries, heap, eloState, Scale,
                                      malNormality(activeEntries))} :
           \A rows \in {results(percentileShift, blending)} :
             RowsOfStore(rows)

\* C26: a started session with a goal g and a legal pair, whose user keeps
\* answering, is offered a pair after every answer, counts one comparison
\* per answer and becomes done, after exactly g answers; the results are
\* then those of the final ratings.
C26_SessionFinishes ==
  /\ [][C26_AnswerStep]_vars
  /\ []C26_DoneState
  /\ (Running ~> (done \/ Interrupted))

\* A session whose goal of two comparisons was reached by two answers,
\* one of which moved the ratings.
C26_Witness ==
  /\ eloState # Null
  /\ done
  /\ lastCall.op = "applyOutcome"
  /\ heap.elo[eloState].comparisons = 2
  /\ \E rows \in {results(0, NoBlending)} :
       \E i \in DOMAIN rows : rows[i].elo # 1500 * Scale


====
